---- MODULE Spec2Model ----
(***************************************************************************)
(* A model of botorch/acquisition/input_constructors.py: the registry of   *)
(* acquisition-function input constructors, and the input constructors     *)
(* themselves as pure operators over small tensors of integers.            *)
(***************************************************************************)
EXTENDS Integers, Sequences, FiniteSets, TLC

VARIABLES
    registry,       \* ACQF_INPUT_CONSTRUCTOR_REGISTRY: acquisition class -> input constructor
    registrations,  \* history: the <<class, function>> pairs written to the registry, in order
    decorators,     \* the decorators returned by acqf_input_constructor that callers still hold
    pc,             \* number of decorated definitions of the module body executed (-1: import failed)
    call            \* the last call: its name, its arguments and its outcome

vars == <<registry, registrations, decorators, pc, call>>

(***************************************************************************)
(* Bounds                                                                  *)
(***************************************************************************)
MaxDecorators == 2      \* decorators a caller holds at the same time
MaxRegistrations == 2   \* registry writes after the module has been loaded

(***************************************************************************)
(* Python values                                                           *)
(***************************************************************************)
\* Optional numbers: None is the empty sequence, a number v is <<v>>.
None == <<>>
Some(v) == <<v>>

\* The outcome of a call: an exception, or a returned value.
Raise(e, msg) == [raised |-> e, msg |-> msg]
Return(v) == [raised |-> "none", value |-> v]
Raised(o, e) == o.raised = e
Returned(o) == o.raised = "none"

\* {**a, **b}
Merge(a, b) == b @@ a

\* d[k] = v
SetItem(d, k, v) == (k :> v) @@ d

Range(s) == {s[i] : i \in DOMAIN s}

(***************************************************************************)
(* The registry                                                            *)
(***************************************************************************)
ACQF_INPUT_CONSTRUCTOR_REGISTRY == [c \in {} |-> "None"]

\* The decorated definitions of the module, in the order of the file.
ModuleBody == <<
    [classes |-> <<"PosteriorMean">>, method |-> "construct_inputs_analytic_base"],
    [classes |-> <<"ExpectedImprovement", "ProbabilityOfImprovement">>,
     method |-> "construct_inputs_best_f"],
    [classes |-> <<"UpperConfidenceBound">>, method |-> "construct_inputs_ucb"],
    [classes |-> <<"ConstrainedExpectedImprovement">>,
     method |-> "construct_inputs_constrained_ei"],
    [classes |-> <<"NoisyExpectedImprovement">>, method |-> "construct_inputs_noisy_ei"],
    [classes |-> <<"qSimpleRegret">>, method |-> "construct_inputs_mc_base"],
    [classes |-> <<"qExpectedImprovement">>, method |-> "construct_inputs_qEI"],
    [classes |-> <<"qNoisyExpectedImprovement">>, method |-> "construct_inputs_qNEI"],
    [classes |-> <<"qProbabilityOfImprovement">>, method |-> "construct_inputs_qPI"],
    [classes |-> <<"qUpperConfidenceBound">>, method |-> "construct_inputs_qUCB"],
    [classes |-> <<"ExpectedHypervolumeImprovement">>, method |-> "construct_inputs_EHVI"],
    [classes |-> <<"qExpectedHypervolumeImprovement">>, method |-> "construct_inputs_qEHVI"],
    [classes |-> <<"qNoisyExpectedHypervolumeImprovement">>,
     method |-> "construct_inputs_qNEHVI"],
    [classes |-> <<"qMaxValueEntropy">>, method |-> "construct_inputs_qMES"],
    [classes |-> <<"qKnowledgeGradient">>, method |-> "construct_inputs_qKG"],
    [classes |-> <<"qMultiFidelityKnowledgeGradient">>, method |-> "construct_inputs_qMFKG"],
    [classes |-> <<"qMultiFidelityMaxValueEntropy">>, method |-> "construct_inputs_qMFMES"] >>

ModuleClasses == UNION {Range(ModuleBody[i].classes) : i \in DOMAIN ModuleBody}

\* Acquisition classes and functions of a caller of the module.
UserClasses == {"UserAcqfA", "UserAcqfB"}
UserMethods == {"user_f", "user_g"}

AcqfClasses == ModuleClasses \cup UserClasses

\* The classes callers pass to the registry: one of the module's and their own.
ArgClasses == {"ConstrainedExpectedImprovement"} \cup UserClasses

\* The argument lists of their acqf_input_constructor calls: one class or two,
\* registered or not, in either order, and one class twice.
ClassTuples ==
    { <<"UserAcqfA">>, <<"UserAcqfB">>, <<"ConstrainedExpectedImprovement">>,
      <<"UserAcqfA", "UserAcqfB">>, <<"UserAcqfA", "UserAcqfA">>,
      <<"UserAcqfB", "ConstrainedExpectedImprovement">>,
      <<"ConstrainedExpectedImprovement", "UserAcqfA">> }

\* get_acqf_input_constructor(acqf_cls), reading the registry reg
get_acqf_input_constructor(reg, acqf_cls) ==
    IF acqf_cls \notin DOMAIN reg
    THEN Raise("RuntimeError", "Input constructor for acquisition class not registered")
    ELSE Return(reg[acqf_cls])

\* _register_acqf_input_constructor(acqf_cls, input_constructor): the registry after it
_register_acqf_input_constructor(reg, acqf_cls, input_constructor) ==
    SetItem(reg, acqf_cls, input_constructor)

\* A variant of the duplicate check that reserves each class as it passes it.
RECURSIVE acqf_input_constructor_reserving(_, _, _)
acqf_input_constructor_reserving(reg, acqf_cls, i) ==
    IF i > Len(acqf_cls) THEN [raised |-> "none", msg |-> "", registry |-> reg]
    ELSE IF acqf_cls[i] \in DOMAIN reg THEN [raised |-> "ValueError", msg |-> "Cannot register duplicate arg constructor", registry |-> reg]
    ELSE acqf_input_constructor_reserving(SetItem(reg, acqf_cls[i], "None"), acqf_cls, i + 1)

\* The duplicate check of acqf_input_constructor, from its i-th class on:
\* the exception it raises, if any, and the registry it leaves.
RECURSIVE acqf_input_constructor_check(_, _, _)
acqf_input_constructor_check(reg, acqf_cls, i) ==
    IF i > Len(acqf_cls) THEN [raised |-> "none", msg |-> "", registry |-> reg]
    ELSE IF acqf_cls[i] \in DOMAIN reg THEN [raised |-> "ValueError", msg |-> "Cannot register duplicate arg constructor", registry |-> reg]
    ELSE acqf_input_constructor_check(reg, acqf_cls, i + 1)

\* acqf_input_constructor(*acqf_cls): the decorator it returns is the closure
\* over acqf_cls, which the model identifies with the tuple of classes.
acqf_input_constructor(reg, acqf_cls) ==
    LET r == acqf_input_constructor_check(reg, acqf_cls, 1)
    IN  [raised |-> r.raised, msg |-> r.msg, registry |-> r.registry, value |-> acqf_cls]

\* decorator(method), from the i-th class of the closure on: the registry it
\* leaves and the writes it made.
RECURSIVE decorator_loop(_, _, _, _, _)
decorator_loop(reg, log, acqf_cls, method, i) ==
    IF i > Len(acqf_cls) THEN [registry |-> reg, log |-> log]
    ELSE decorator_loop(
            SetItem(_register_acqf_input_constructor(reg, acqf_cls[i], method),
                    acqf_cls[i], method),
            Append(log, <<acqf_cls[i], method, "decorator">>), acqf_cls, method, i + 1)

\* A variant of decorator that registers the last class of its tuple only.
decorator_last(reg, log, acqf_cls, method) ==
    LET r == decorator_loop(reg, log, acqf_cls, method, Len(acqf_cls))
    IN  [raised |-> "none", registry |-> r.registry, log |-> r.log, value |-> method]

decorator(reg, log, acqf_cls, method) ==
    LET r == decorator_loop(reg, log, acqf_cls, method, 1)
    IN  [raised |-> "none", registry |-> r.registry, log |-> r.log, value |-> method]

\* A variant of construct_inputs_constrained_ei that returns the bundle of its TODO.
construct_inputs_constrained_ei_bundle(model, training_data, objective_index, constraints, maximize) ==
    Return([model |-> model, objective_index |-> objective_index,
            constraints |-> constraints, maximize |-> maximize])

\* construct_inputs_constrained_ei: unimplemented, for every input
construct_inputs_constrained_ei(model, training_data, objective_index, constraints, maximize) ==
    Raise("NotImplementedError", "")

(***************************************************************************)
(* The registry as a state machine: the module is loaded, then its callers *)
(* create decorators, apply them, register directly, look up and call.     *)
(***************************************************************************)
NoCall == [op |-> "none", args |-> <<>>, out |-> Return("None")]

Loaded == pc = Len(ModuleBody)

Init ==
    /\ registry = ACQF_INPUT_CONSTRUCTOR_REGISTRY
    /\ registrations = <<>>
    /\ decorators = {}
    /\ pc = 0
    /\ call = NoCall

\* One decorated definition of the module body: @acqf_input_constructor(...) def ...
LoadStep ==
    /\ pc >= 0
    /\ pc < Len(ModuleBody)
    /\ LET e == ModuleBody[pc + 1]
           c == acqf_input_constructor(registry, e.classes)
           d == decorator(c.registry, registrations, e.classes, e.method)
       IN  IF c.raised # "none"
           THEN /\ registry' = c.registry
                /\ pc' = -1
                /\ call' = [op |-> "import", args |-> e, out |-> Raise(c.raised, c.msg)]
                /\ UNCHANGED registrations
           ELSE /\ registry' = d.registry
                /\ registrations' = d.log
                /\ pc' = pc + 1
                /\ call' = [op |-> "import", args |-> e, out |-> Return(d.value)]
    /\ UNCHANGED decorators

\* A caller calls acqf_input_constructor(*acqf_cls) and keeps the decorator.
AcqfInputConstructor(acqf_cls) ==
    /\ Loaded
    /\ LET c == acqf_input_constructor(registry, acqf_cls)
       IN  /\ registry' = c.registry
           /\ IF c.raised = "none"
              THEN /\ Cardinality(decorators \cup {c.value}) <= MaxDecorators
                   /\ decorators' = decorators \cup {c.value}
                   /\ call' = [op |-> "acqf_input_constructor", args |-> acqf_cls,
                               out |-> Return(c.value)]
              ELSE /\ UNCHANGED decorators
                   /\ call' = [op |-> "acqf_input_constructor", args |-> acqf_cls,
                               out |-> Raise(c.raised, c.msg)]
    /\ UNCHANGED <<registrations, pc>>

\* A caller applies a decorator it holds to a function.
Decorator(d, method) ==
    /\ Loaded
    /\ d \in decorators
    /\ Len(registrations) + Len(d) <= Cardinality(ModuleClasses) + MaxRegistrations
    /\ LET r == decorator(registry, registrations, d, method)
       IN  /\ registry' = r.registry
           /\ registrations' = r.log
           /\ call' = [op |-> "decorator", args |-> <<d, method>>, out |-> Return(r.value)]
    /\ UNCHANGED <<decorators, pc>>

\* A caller calls _register_acqf_input_constructor directly.
RegisterAcqfInputConstructor(acqf_cls, input_constructor) ==
    /\ Loaded
    /\ Len(registrations) + 1 <= Cardinality(ModuleClasses) + MaxRegistrations
    /\ registry' = _register_acqf_input_constructor(registry, acqf_cls, input_constructor)
    /\ registrations' = Append(registrations, <<acqf_cls, input_constructor, "direct">>)
    /\ call' = [op |-> "_register_acqf_input_constructor",
                args |-> <<acqf_cls, input_constructor>>, out |-> Return("None")]
    /\ UNCHANGED <<decorators, pc>>

\* A caller looks a class up.
GetAcqfInputConstructor(acqf_cls) ==
    /\ Loaded
    /\ call' = [op |-> "get_acqf_input_constructor", args |-> acqf_cls,
                out |-> get_acqf_input_constructor(registry, acqf_cls)]
    /\ UNCHANGED <<registry, registrations, decorators, pc>>

\* A caller calls the input constructor of ConstrainedExpectedImprovement.
ConstructInputsConstrainedEi(objective_index, maximize) ==
    /\ Loaded
    /\ call' = [op |-> "construct_inputs_constrained_ei",
                args |-> [objective_index |-> objective_index, maximize |-> maximize],
                out |-> construct_inputs_constrained_ei("model", "training_data",
                            objective_index, "constraints", maximize)]
    /\ UNCHANGED <<registry, registrations, decorators, pc>>

Next ==
    \/ LoadStep
    \/ \E acqf_cls \in ClassTuples : AcqfInputConstructor(acqf_cls)
    \/ \E d \in decorators, method \in UserMethods : Decorator(d, method)
    \/ \E acqf_cls \in ArgClasses, f \in UserMethods : RegisterAcqfInputConstructor(acqf_cls, f)
    \/ \E acqf_cls \in ArgClasses : GetAcqfInputConstructor(acqf_cls)
    \/ \E maximize \in BOOLEAN : ConstructInputsConstrainedEi(0, maximize)

Spec == Init /\ [][Next]_vars

TypeOK ==
    /\ DOMAIN registry \subseteq AcqfClasses
    /\ pc \in -1..Len(ModuleBody)
    /\ decorators \subseteq ClassTuples

(***************************************************************************)
(* Claims about the registry                                               *)
(***************************************************************************)
\* The registrations of class c made by applying a decorator.
DecoratedAs(c) ==
    {registrations[i][2] : i \in {j \in DOMAIN registrations :
        registrations[j][1] = c /\ registrations[j][3] = "decorator"}}

DirectlyRegistered(c) ==
    \E i \in DOMAIN registrations : registrations[i][1] = c /\ registrations[i][3] = "direct"

\* C1: after any sequence of registrations through the decorator, lookup of a
\* class returns exactly the function the decorator was applied to for that
\* class, and lookup of a class that was never registered raises RuntimeError.
C1_LookupReturnsRegistered ==
    \A c \in AcqfClasses :
        ~DirectlyRegistered(c) =>
            /\ \A f \in DecoratedAs(c) : get_acqf_input_constructor(registry, c) = Return(f)
            /\ DecoratedAs(c) = {} => Raised(get_acqf_input_constructor(registry, c), "RuntimeError")

\* C2: whatever the interleaving of decorator creations and applications, no
\* application of a decorator registers a class that is already registered
\* (a second registration of an identity never completes).
C2_SecondRegistrationFails ==
    [][(call'.op = "decorator" /\ registrations' # registrations)
        => \A c \in Range(call'.args[1]) : c \notin DOMAIN registry]_vars

\* C3: registration is additive and permanent: an entry of the registry is
\* never removed and its function is never replaced, by any operation.
C3_RegistrationPermanent ==
    [][\A c \in DOMAIN registry : c \in DOMAIN registry' /\ registry'[c] = registry[c]]_vars

\* C4: a call of acqf_input_constructor that raises ValueError, and a call of
\* get_acqf_input_constructor that raises RuntimeError, leave the registry as
\* it was: no class of the failing call has been added.
C4_FailedRegistrationLeavesRegistry ==
    [][(\/ call'.op = "acqf_input_constructor" /\ Raised(call'.out, "ValueError")
        \/ call'.op = "get_acqf_input_constructor" /\ Raised(call'.out, "RuntimeError"))
       => registry' = registry]_vars

\* C4's case: a failing registration that names a class not yet registered.
C4_Witness ==
    /\ call.op = "acqf_input_constructor"
    /\ Raised(call.out, "ValueError")
    /\ \E i \in DOMAIN call.args : call.args[i] \notin DOMAIN registry
    /\ \E i \in DOMAIN call.args : call.args[i] \in DOMAIN registry

\* C10: once the module is loaded ConstrainedExpectedImprovement is registered
\* (with construct_inputs_constrained_ei unless a caller registered it again),
\* so its lookup succeeds; every call of construct_inputs_constrained_ei raises
\* NotImplementedError, returns no bundle and leaves the registry unchanged.
C10_ConstrainedEiUnimplemented ==
    /\ [](Loaded =>
            /\ Returned(get_acqf_input_constructor(registry, "ConstrainedExpectedImprovement"))
            /\ (~DirectlyRegistered("ConstrainedExpectedImprovement") =>
                    registry["ConstrainedExpectedImprovement"] = "construct_inputs_constrained_ei")
            /\ (call.op = "construct_inputs_constrained_ei" =>
                    Raised(call.out, "NotImplementedError")))
    /\ [][call'.op = "construct_inputs_constrained_ei" => registry' = registry]_vars

\* C10's case: the registered constructor has been called and has failed.
C10_Witness ==
    /\ call.op = "construct_inputs_constrained_ei"
    /\ Raised(call.out, "NotImplementedError")
    /\ get_acqf_input_constructor(registry, "ConstrainedExpectedImprovement")
         = Return("construct_inputs_constrained_ei")

(***************************************************************************)
(* The module as loaded, for the calls of its functions                    *)
(***************************************************************************)
RECURSIVE ImportModule(_, _, _)
ImportModule(reg, log, i) ==
    IF i > Len(ModuleBody) THEN [registry |-> reg, log |-> log]
    ELSE LET e == ModuleBody[i]
             c == acqf_input_constructor(reg, e.classes)
             d == decorator(c.registry, log, e.classes, e.method)
         IN  IF c.raised # "none" THEN [registry |-> c.registry, log |-> log]
             ELSE ImportModule(d.registry, d.log, i + 1)

Imported == ImportModule(ACQF_INPUT_CONSTRUCTOR_REGISTRY, <<>>, 1)

Pending == [raised |-> "pending", msg |-> ""]

\* The module is loaded.
InitModule ==
    /\ registry = Imported.registry
    /\ registrations = Imported.log
    /\ decorators = {}
    /\ pc = Len(ModuleBody)

\* keyword arguments: kw[name] if the caller gave it, else the default
Arg(kw, name, default) == IF name \in DOMAIN kw THEN kw[name] ELSE default

\* the sets of keyword arguments kws, with name absent or one of vals
WithOptional(kws, name, vals) == kws \cup {SetItem(kw, name, v) : kw \in kws, v \in vals}

WithRequired(kws, name, vals) == {SetItem(kw, name, v) : kw \in kws, v \in vals}

(***************************************************************************)
(* Training data and objectives                                            *)
(***************************************************************************)
MaxObs == 3                 \* observations (rows of Y)
OutcomeValues == {1, 2, 3}  \* observed outcomes
OutcomeCounts == {1, 2}     \* outcome columns of Y
WeightValues == {-1, 1}     \* weights of an objective
OffsetValues == {0, 1}      \* offset of a scalarized objective

\* Y: an n x m tensor, a sequence of n rows of m outcomes
Outcomes(m) == UNION {[1..n -> [1..m -> OutcomeValues]] : n \in 1..MaxObs}

\* Y.shape[-1]
NumOutcomes(Y) == Len(Y[1])

\* TrainingData: X is the tensor of the inputs, Y of the outcomes
TrainingData(m) ==
    {[is_block_design |-> b, X |-> "X_train", Y |-> Y] : b \in BOOLEAN, Y \in Outcomes(m)}

\* objective=None
NoObjective == [kind |-> "None", weights |-> <<>>, offset |-> 0, index |-> 0]

\* ScalarizedObjective(weights, offset), for m outcomes
ScalarizedObjectives(m) ==
    {[kind |-> "ScalarizedObjective", weights |-> w, offset |-> o, index |-> 0] :
        w \in [1..m -> WeightValues], o \in OffsetValues}

\* MCAcquisitionObjective, for m outcomes: GenericMCObjective(lambda Y: Y[..., index])
\* and LinearMCObjective(weights)
MCObjectives(m) ==
    {[kind |-> "GenericMCObjective", weights |-> <<>>, offset |-> 0, index |-> i] : i \in 1..m}
    \cup {[kind |-> "LinearMCObjective", weights |-> w, offset |-> 0, index |-> 0] :
            w \in [1..m -> WeightValues]}

IdentityMCObjective == [kind |-> "IdentityMCObjective", weights |-> <<>>, offset |-> 0, index |-> 0]

RECURSIVE Dot(_, _)
Dot(row, weights) ==
    IF row = <<>> THEN 0 ELSE Head(row) * Head(weights) + Dot(Tail(row), Tail(weights))

\* ScalarizedObjective.evaluate(Y): offset + Y @ weights, one value per observation
ScalarizedObjective_evaluate(objective, Y) ==
    [i \in 1..Len(Y) |-> objective.offset + Dot(Y[i], objective.weights)]

\* MCAcquisitionObjective.forward(samples): one value per observation
MCAcquisitionObjective_forward(objective, Y) ==
    [i \in 1..Len(Y) |->
        CASE objective.kind = "IdentityMCObjective" -> Y[i][1]
          [] objective.kind = "GenericMCObjective" -> Y[i][objective.index]
          [] objective.kind = "LinearMCObjective" -> Dot(Y[i], objective.weights)]

\* t.max(-1).values of a one-dimensional tensor
TensorMax(t) == CHOOSE x \in Range(t) : \A y \in Range(t) : y <= x

\* Y.max(-2).values.squeeze(-1) of an n x 1 tensor
ColumnMax(Y) == TensorMax([i \in 1..Len(Y) |-> Y[i][1]])

BlockDesignMsg == "Currently only block designs are supported."
MultiOutputAnalyticMsg == "Analytic acquisition functions currently only work with multi-output models if provided with a ScalarizedObjective."
MultiOutputMCMsg == "Acquisition functions require an objective when used with multi-output models"

\* A variant of get_best_f_analytic that takes the first observation for the best.
get_best_f_analytic_first(training_data, objective) ==
    IF ~training_data.is_block_design
    THEN Raise("NotImplementedError", BlockDesignMsg)
    ELSE LET Y == training_data.Y
         IN  IF objective.kind = "ScalarizedObjective"
             THEN Return(ScalarizedObjective_evaluate(objective, Y)[1])
             ELSE IF NumOutcomes(Y) > 1
             THEN Raise("NotImplementedError", MultiOutputAnalyticMsg)
             ELSE Return(Y[1][1])

get_best_f_analytic(training_data, objective) ==
    IF ~training_data.is_block_design
    THEN Raise("NotImplementedError", BlockDesignMsg)
    ELSE LET Y == training_data.Y
         IN  IF objective.kind = "ScalarizedObjective"
             THEN Return(TensorMax(ScalarizedObjective_evaluate(objective, Y)))
             ELSE IF NumOutcomes(Y) > 1
             THEN Raise("NotImplementedError", MultiOutputAnalyticMsg)
             ELSE Return(ColumnMax(Y))

\* A variant of get_best_f_mc that looks at the number of outcomes before the
\* design of the data.
get_best_f_mc_outcomes_first(training_data, objective) ==
    LET Y == training_data.Y
    IN  IF objective.kind = "None" /\ NumOutcomes(Y) > 1
        THEN Raise("UnsupportedError", MultiOutputMCMsg)
        ELSE IF ~training_data.is_block_design
        THEN Raise("NotImplementedError", BlockDesignMsg)
        ELSE LET objective_ == IF objective.kind = "None" THEN IdentityMCObjective
                               ELSE objective
             IN  Return(TensorMax(MCAcquisitionObjective_forward(objective_, Y)))

\* A variant of get_best_f_mc that assumes the identity objective also for
\* multi-output data.
get_best_f_mc_unchecked(training_data, objective) ==
    IF ~training_data.is_block_design
    THEN Raise("NotImplementedError", BlockDesignMsg)
    ELSE LET Y == training_data.Y
             objective_ == IF objective.kind = "None" THEN IdentityMCObjective ELSE objective
         IN  Return(TensorMax(MCAcquisitionObjective_forward(objective_, training_data.Y)))

get_best_f_mc(training_data, objective) ==
    IF ~training_data.is_block_design
    THEN Raise("NotImplementedError", BlockDesignMsg)
    ELSE LET Y == training_data.Y
         IN  IF objective.kind = "None" /\ NumOutcomes(Y) > 1
             THEN Raise("UnsupportedError", MultiOutputMCMsg)
             ELSE LET objective_ == IF objective.kind = "None" THEN IdentityMCObjective
                                    ELSE objective
                  IN  Return(TensorMax(MCAcquisitionObjective_forward(objective_, training_data.Y)))

(***************************************************************************)
(* The best-f helpers, called on every training data and objective         *)
(***************************************************************************)
\* A call that is about to be made.
Call(op, args) == [op |-> op, args |-> args, out |-> Pending]

BestFObjectives(op, m) ==
    IF op = "get_best_f_analytic"
    THEN {NoObjective} \cup ScalarizedObjectives(m) \cup MCObjectives(m)
    ELSE {NoObjective} \cup MCObjectives(m)

InitBestF ==
    /\ InitModule
    /\ \E op \in {"get_best_f_analytic", "get_best_f_mc"}, m \in OutcomeCounts :
         \E td \in TrainingData(m), o \in BestFObjectives(op, m) :
            call = Call(op, [training_data |-> td, objective |-> o])

\* The call is made: its outcome is out.
Apply(op, out) ==
    /\ call.op = op
    /\ call.out = Pending
    /\ call' = [call EXCEPT !.out = out]
    /\ UNCHANGED <<registry, registrations, decorators, pc>>

GetBestFAnalytic ==
    Apply("get_best_f_analytic",
          get_best_f_analytic(call.args.training_data, call.args.objective))

GetBestFMc ==
    Apply("get_best_f_mc", get_best_f_mc(call.args.training_data, call.args.objective))

NextBestF == GetBestFAnalytic \/ GetBestFMc

SpecBestF == InitBestF /\ [][NextBestF]_vars

(***************************************************************************)
(* Claims about the best-f helpers                                         *)
(***************************************************************************)
IsMaximumOf(v, S) == v \in S /\ \A y \in S : y <= v

Done(op) == call.op = op /\ call.out # Pending

\* C6: get_best_f_analytic raises NotImplementedError for data that is not
\* block design; else with a ScalarizedObjective it returns the maximum over
\* the observations of offset + weights . outcomes, also for multi-output
\* data; else it raises NotImplementedError for data of more than one outcome
\* column; else it returns the maximum observed outcome (3 for [1, 3, 2]).
C6_BestFAnalytic ==
    Done("get_best_f_analytic") =>
        LET td == call.args.training_data
            o == call.args.objective
            Y == td.Y
        IN  IF ~td.is_block_design THEN Raised(call.out, "NotImplementedError")
            ELSE IF o.kind = "ScalarizedObjective"
            THEN /\ Returned(call.out)
                 /\ IsMaximumOf(call.out.value,
                                {o.offset + Dot(Y[i], o.weights) : i \in DOMAIN Y})
            ELSE IF NumOutcomes(Y) > 1 THEN Raised(call.out, "NotImplementedError")
            ELSE /\ Returned(call.out)
                 /\ IsMaximumOf(call.out.value, {Y[i][1] : i \in DOMAIN Y})
                 /\ (Y = << <<1>>, <<3>>, <<2>> >> => call.out.value = 3)

\* C6's case: a scalarized objective over two outcome columns, whose maximum
\* is not at the first observation.
C6_Witness ==
    /\ Done("get_best_f_analytic")
    /\ Returned(call.out)
    /\ call.args.objective.kind = "ScalarizedObjective"
    /\ NumOutcomes(call.args.training_data.Y) = 2
    /\ call.out.value > ScalarizedObjective_evaluate(call.args.objective,
                                                     call.args.training_data.Y)[1]

\* C7: for block-design data, get_best_f_mc without an objective raises
\* UnsupportedError if there is more than one outcome column and returns the
\* maximum observed outcome if there is one; with an objective it returns the
\* maximum over the observations of the objective applied to the outcomes, so
\* an objective that selects one column returns that column's maximum.
C7_BestFMc ==
    (Done("get_best_f_mc") /\ call.args.training_data.is_block_design) =>
        LET o == call.args.objective
            Y == call.args.training_data.Y
        IN  IF o.kind = "None"
            THEN IF NumOutcomes(Y) > 1 THEN Raised(call.out, "UnsupportedError")
                 ELSE /\ Returned(call.out)
                      /\ IsMaximumOf(call.out.value, {Y[i][1] : i \in DOMAIN Y})
            ELSE /\ Returned(call.out)
                 /\ o.kind = "GenericMCObjective" =>
                        IsMaximumOf(call.out.value, {Y[i][o.index] : i \in DOMAIN Y})
                 /\ o.kind = "LinearMCObjective" =>
                        IsMaximumOf(call.out.value, {Dot(Y[i], o.weights) : i \in DOMAIN Y})

\* C7's case: the objective selects the second of two columns, whose maximum
\* differs from the first column's.
C7_Witness ==
    /\ Done("get_best_f_mc")
    /\ Returned(call.out)
    /\ call.args.training_data.is_block_design
    /\ NumOutcomes(call.args.training_data.Y) = 2
    /\ call.args.objective.kind = "GenericMCObjective"
    /\ call.args.objective.index = 2
    /\ call.out.value # ColumnMax(call.args.training_data.Y)

\* C23: the best-f helpers report the first precondition that the data
\* violates. For data that is not block design both raise NotImplementedError
\* with the block-design message, also when the data has several outcomes and
\* there is no objective; for block-design data of several outcomes
\* get_best_f_analytic without a ScalarizedObjective raises NotImplementedError
\* with the multi-output message, and get_best_f_mc without an objective
\* raises UnsupportedError.
C23_FirstViolatedPrecondition ==
    LET td == call.args.training_data
        objective == call.args.objective
    IN  (call.op \in {"get_best_f_analytic", "get_best_f_mc"} /\ call.out # Pending) =>
            /\ ~td.is_block_design =>
                 call.out = Raise("NotImplementedError", BlockDesignMsg)
            /\ (td.is_block_design /\ NumOutcomes(td.Y) > 1) =>
                 /\ ( /\ call.op = "get_best_f_analytic"
                      /\ objective.kind # "ScalarizedObjective" )
                     => call.out = Raise("NotImplementedError", MultiOutputAnalyticMsg)
                 /\ ( /\ call.op = "get_best_f_mc"
                      /\ objective = NoObjective )
                     => call.out = Raise("UnsupportedError", MultiOutputMCMsg)

\* C23's case: get_best_f_mc has raised the block-design error for data of two
\* outcomes that is not block design, without an objective.
C23_Witness ==
    /\ Done("get_best_f_mc")
    /\ ~call.args.training_data.is_block_design
    /\ NumOutcomes(call.args.training_data.Y) = 2
    /\ call.args.objective = NoObjective
    /\ call.out = Raise("NotImplementedError", BlockDesignMsg)

(***************************************************************************)
(* Input constructors of the analytic and Monte-Carlo acquisition functions*)
(* Each takes its keyword arguments kw; an argument the caller leaves out  *)
(* takes the default of the signature.                                     *)
(***************************************************************************)
DefaultNumFantasies == 20
DefaultTau == 1             \* 1e-3, in thousandths
DefaultBeta == 200          \* 0.2, in thousandths

construct_inputs_analytic_base(kw) ==
    Return([model |-> kw.model, objective |-> Arg(kw, "objective", NoObjective)])

\* A variant of construct_inputs_best_f that derives the best value only when
\* the caller gives none.
construct_inputs_best_f_lazy(kw) ==
    LET base_inputs == construct_inputs_analytic_base(kw)
        derived == get_best_f_analytic(kw.training_data, Arg(kw, "objective", NoObjective))
    IN  IF "best_f" \notin DOMAIN kw /\ ~Returned(derived) THEN derived
        ELSE Return(Merge(base_inputs.value,
                          [best_f |-> Arg(kw, "best_f", Some(derived.value)),
                           maximize |-> Arg(kw, "maximize", TRUE)]))

construct_inputs_best_f(kw) ==
    LET model == kw.model
        training_data == kw.training_data
        objective == Arg(kw, "objective", NoObjective)
        maximize == Arg(kw, "maximize", TRUE)
        base_inputs == construct_inputs_analytic_base(
            [model |-> model, training_data |-> training_data, objective |-> objective])
        \* the default of kwargs.get is evaluated before the lookup
        default == get_best_f_analytic(training_data, objective)
    IN  IF ~Returned(default) THEN default
        ELSE Return(Merge(base_inputs.value,
                          [best_f |-> Arg(kw, "best_f", Some(default.value)),
                           maximize |-> maximize]))

\* A variant of construct_inputs_ucb whose problem is a minimization unless the
\* caller says otherwise.
construct_inputs_ucb_minimizing(kw) ==
    Return([model |-> kw.model, objective |-> Arg(kw, "objective", NoObjective),
            beta |-> Arg(kw, "beta", DefaultBeta), maximize |-> Arg(kw, "maximize", FALSE)])

construct_inputs_ucb(kw) ==
    LET model == kw.model
        training_data == kw.training_data
        objective == Arg(kw, "objective", NoObjective)
        beta == Arg(kw, "beta", DefaultBeta)
        maximize == Arg(kw, "maximize", TRUE)
        base_inputs == construct_inputs_analytic_base(
            [model |-> model, training_data |-> training_data, objective |-> objective])
    IN  Return(Merge(base_inputs.value, [beta |-> beta, maximize |-> maximize]))

\* A variant of construct_inputs_noisy_ei without the block-design check.
construct_inputs_noisy_ei_unchecked(kw) ==
    Return([model |-> kw.model, X_observed |-> kw.training_data.X,
            num_fantasies |-> Arg(kw, "num_fantasies", DefaultNumFantasies),
            maximize |-> Arg(kw, "maximize", TRUE)])

construct_inputs_noisy_ei(kw) ==
    LET model == kw.model
        training_data == kw.training_data
        num_fantasies == Arg(kw, "num_fantasies", DefaultNumFantasies)
        maximize == Arg(kw, "maximize", TRUE)
    IN  IF ~training_data.is_block_design
        THEN Raise("NotImplementedError", "Currently only block designs are supported")
        ELSE Return([model |-> model, X_observed |-> training_data.X,
                     num_fantasies |-> num_fantasies, maximize |-> maximize])

\* A variant of construct_inputs_mc_base that requires block-design data and
\* supplies a sampler of its own when the caller gives none.
construct_inputs_mc_base_checked(kw) ==
    IF ~kw.training_data.is_block_design
    THEN Raise("NotImplementedError", BlockDesignMsg)
    ELSE Return([model |-> kw.model, objective |-> Arg(kw, "objective", NoObjective),
                 X_pending |-> Arg(kw, "X_pending", None),
                 sampler |-> Arg(kw, "sampler", Some("default_sampler"))])

construct_inputs_mc_base(kw) ==
    Return([model |-> kw.model, objective |-> Arg(kw, "objective", NoObjective),
            X_pending |-> Arg(kw, "X_pending", None), sampler |-> Arg(kw, "sampler", None)])

construct_inputs_qEI(kw) ==
    LET model == kw.model
        training_data == kw.training_data
        objective == Arg(kw, "objective", NoObjective)
        X_pending == Arg(kw, "X_pending", None)
        sampler == Arg(kw, "sampler", None)
        base_inputs == construct_inputs_mc_base(
            [model |-> model, training_data |-> training_data, objective |-> objective,
             sampler |-> sampler, X_pending |-> X_pending])
        \* the default of kwargs.get is evaluated before the lookup
        default == get_best_f_mc(training_data, objective)
    IN  IF ~Returned(default) THEN default
        ELSE Return(Merge(base_inputs.value,
                          [best_f |-> Arg(kw, "best_f", Some(default.value))]))

\* A variant of construct_inputs_qNEI that takes the training inputs as baseline
\* whatever the caller supplies.
construct_inputs_qNEI_observed(kw) ==
    IF ~kw.training_data.is_block_design
    THEN Raise("NotImplementedError", BlockDesignMsg)
    ELSE Return(Merge(construct_inputs_mc_base(kw).value,
                      [X_baseline |-> Some(kw.training_data.X),
                       prune_baseline |-> Arg(kw, "prune_baseline", FALSE)]))

construct_inputs_qNEI(kw) ==
    LET model == kw.model
        training_data == kw.training_data
        objective == Arg(kw, "objective", NoObjective)
        X_pending == Arg(kw, "X_pending", None)
        sampler == Arg(kw, "sampler", None)
        X_baseline == Arg(kw, "X_baseline", None)
        prune_baseline == Arg(kw, "prune_baseline", FALSE)
        base_inputs == construct_inputs_mc_base(
            [model |-> model, training_data |-> training_data, objective |-> objective,
             sampler |-> sampler, X_pending |-> X_pending])
    IN  IF X_baseline = None /\ ~training_data.is_block_design
        THEN Raise("NotImplementedError", BlockDesignMsg)
        ELSE Return(Merge(base_inputs.value,
                          [X_baseline |-> IF X_baseline = None THEN Some(training_data.X)
                                          ELSE X_baseline,
                           prune_baseline |-> prune_baseline]))

construct_inputs_qPI(kw) ==
    LET model == kw.model
        training_data == kw.training_data
        objective == Arg(kw, "objective", NoObjective)
        X_pending == Arg(kw, "X_pending", None)
        sampler == Arg(kw, "sampler", None)
        tau == Arg(kw, "tau", DefaultTau)
        best_f == Arg(kw, "best_f", None)
        base_inputs == construct_inputs_mc_base(
            [model |-> model, training_data |-> training_data, objective |-> objective,
             sampler |-> sampler, X_pending |-> X_pending])
        derived == get_best_f_mc(training_data, objective)
    IN  IF best_f = None /\ ~Returned(derived) THEN derived
        ELSE Return(Merge(base_inputs.value,
                          [tau |-> tau,
                           best_f |-> IF best_f = None THEN Some(derived.value) ELSE best_f]))

construct_inputs_qUCB(kw) ==
    LET model == kw.model
        training_data == kw.training_data
        objective == Arg(kw, "objective", NoObjective)
        X_pending == Arg(kw, "X_pending", None)
        sampler == Arg(kw, "sampler", None)
        beta == Arg(kw, "beta", DefaultBeta)
        base_inputs == construct_inputs_mc_base(
            [model |-> model, training_data |-> training_data, objective |-> objective,
             sampler |-> sampler, X_pending |-> X_pending])
    IN  Return(Merge(base_inputs.value, [beta |-> beta]))

(***************************************************************************)
(* The input constructors, called on every training data and arguments     *)
(***************************************************************************)
\* The training data of the constructor calls: fewer observations than MaxObs.
ConstructorTrainingData(m) == {td \in TrainingData(m) : Len(td.Y) < MaxObs}

ConstructorOps ==
    {"construct_inputs_best_f", "construct_inputs_noisy_ei", "construct_inputs_qEI",
     "construct_inputs_qNEI", "construct_inputs_qPI"}

\* The constructors that do not read the training data.
BaseOps ==
    {"construct_inputs_analytic_base", "construct_inputs_mc_base",
     "construct_inputs_ucb", "construct_inputs_qUCB"}

\* The keyword arguments of a call of op with training data td of m outcomes.
ConstructorKwargs(op, m, td) ==
    LET required == {[model |-> "model", training_data |-> td]}
        analytic == WithOptional(required, "objective",
                                 ScalarizedObjectives(m) \cup MCObjectives(m))
        mc == WithOptional(WithOptional(required, "objective", MCObjectives(m)),
                           "X_pending", {Some("X_pending")})
    IN  CASE op = "construct_inputs_best_f" ->
                WithOptional(WithOptional(analytic, "best_f", {None, Some(7)}),
                             "maximize", {FALSE})
          [] op = "construct_inputs_noisy_ei" ->
                WithOptional(WithOptional(required, "num_fantasies", {5}),
                             "maximize", {FALSE})
          [] op = "construct_inputs_qEI" ->
                WithOptional(WithOptional(mc, "best_f", {None, Some(7)}),
                             "sampler", {Some("sampler")})
          [] op = "construct_inputs_qNEI" ->
                WithOptional(WithOptional(mc, "X_baseline", {Some("X_baseline")}),
                             "prune_baseline", {TRUE})
          [] op = "construct_inputs_qPI" ->
                WithOptional(WithOptional(mc, "best_f", {None, Some(7)}), "tau", {5})
          [] op = "construct_inputs_analytic_base" ->
                WithOptional(analytic, "maximize", {FALSE})
          [] op = "construct_inputs_mc_base" ->
                WithOptional(WithOptional(mc, "sampler", {None, Some("sampler")}),
                             "best_f", {Some(7)})
          [] op = "construct_inputs_ucb" ->
                WithOptional(WithOptional(analytic, "beta", {500}), "maximize", {FALSE})
          [] op = "construct_inputs_qUCB" ->
                WithOptional(WithOptional(mc, "sampler", {Some("sampler")}), "beta", {500})

InitConstructor ==
    /\ InitModule
    /\ \E op \in ConstructorOps \cup BaseOps, m \in OutcomeCounts :
         \E td \in ConstructorTrainingData(m) :
            \E kw \in ConstructorKwargs(op, m, td) : call = Call(op, kw)

ConstructInputsBestF == Apply("construct_inputs_best_f", construct_inputs_best_f(call.args))

ConstructInputsNoisyEi == Apply("construct_inputs_noisy_ei", construct_inputs_noisy_ei(call.args))

ConstructInputsQEI == Apply("construct_inputs_qEI", construct_inputs_qEI(call.args))

ConstructInputsQNEI == Apply("construct_inputs_qNEI", construct_inputs_qNEI(call.args))

ConstructInputsQPI == Apply("construct_inputs_qPI", construct_inputs_qPI(call.args))

ConstructInputsAnalyticBase ==
    Apply("construct_inputs_analytic_base", construct_inputs_analytic_base(call.args))

ConstructInputsMcBase == Apply("construct_inputs_mc_base", construct_inputs_mc_base(call.args))

ConstructInputsUcb == Apply("construct_inputs_ucb", construct_inputs_ucb(call.args))

ConstructInputsQUCB == Apply("construct_inputs_qUCB", construct_inputs_qUCB(call.args))

NextConstructor ==
    \/ ConstructInputsBestF
    \/ ConstructInputsNoisyEi
    \/ ConstructInputsQEI
    \/ ConstructInputsQNEI
    \/ ConstructInputsQPI
    \/ ConstructInputsAnalyticBase
    \/ ConstructInputsMcBase
    \/ ConstructInputsUcb
    \/ ConstructInputsQUCB

SpecConstructor == InitConstructor /\ [][NextConstructor]_vars

\* C5: for training data that is not block design, construct_inputs_best_f,
\* construct_inputs_qEI and construct_inputs_noisy_ei raise NotImplementedError
\* whatever their other arguments; construct_inputs_qPI raises it exactly when
\* no best_f is given and construct_inputs_qNEI exactly when no X_baseline is
\* given, and the bundle they return otherwise holds the caller's best_f or
\* X_baseline: no value is substituted for the one the data cannot give.
C5_NonBlockDesignFails ==
    (call.op \in ConstructorOps /\ call.out # Pending
        /\ ~call.args.training_data.is_block_design) =>
        CASE call.op \in {"construct_inputs_best_f", "construct_inputs_qEI",
                          "construct_inputs_noisy_ei"} ->
                Raised(call.out, "NotImplementedError")
          [] call.op = "construct_inputs_qPI" ->
                IF Arg(call.args, "best_f", None) = None
                THEN Raised(call.out, "NotImplementedError")
                ELSE Returned(call.out) /\ call.out.value.best_f = call.args.best_f
          [] call.op = "construct_inputs_qNEI" ->
                IF Arg(call.args, "X_baseline", None) = None
                THEN Raised(call.out, "NotImplementedError")
                ELSE Returned(call.out) /\ call.out.value.X_baseline = call.args.X_baseline

\* C5 as stated: every best-f and noisy-EI derivation fails on data that is
\* not block design, for every combination of its other arguments.
C5_Original ==
    (call.op \in ConstructorOps /\ call.out # Pending
        /\ ~call.args.training_data.is_block_design) =>
        Raised(call.out, "NotImplementedError")

\* C5's case: construct_inputs_qPI has been called with a best_f on data that
\* is not block design, and has returned a bundle with that best_f.
C5_Witness ==
    /\ Done("construct_inputs_qPI")
    /\ ~call.args.training_data.is_block_design
    /\ Arg(call.args, "best_f", None) = Some(7)
    /\ Returned(call.out)
    /\ call.out.value.best_f = Some(7)

\* C11: construct_inputs_analytic_base returns, for every training data (block
\* design or not) and every objective, given or left out, exactly the fields
\* model and objective with the caller's values, and construct_inputs_mc_base
\* exactly model, objective, X_pending and sampler; a field the caller leaves
\* out is None, and neither call fails.
C11_BasePassThrough ==
    /\ Done("construct_inputs_analytic_base") =>
          /\ Returned(call.out)
          /\ DOMAIN call.out.value = {"model", "objective"}
          /\ call.out.value.model = call.args.model
          /\ call.out.value.objective = Arg(call.args, "objective", NoObjective)
    /\ Done("construct_inputs_mc_base") =>
          /\ Returned(call.out)
          /\ DOMAIN call.out.value = {"model", "objective", "X_pending", "sampler"}
          /\ call.out.value.model = call.args.model
          /\ call.out.value.objective = Arg(call.args, "objective", NoObjective)
          /\ call.out.value.X_pending = Arg(call.args, "X_pending", None)
          /\ call.out.value.sampler = Arg(call.args, "sampler", None)

\* C11's case: construct_inputs_mc_base has returned for data that is not block
\* design, called with pending points and without objective and sampler.
C11_Witness ==
    /\ Done("construct_inputs_mc_base")
    /\ ~call.args.training_data.is_block_design
    /\ "sampler" \notin DOMAIN call.args
    /\ "objective" \notin DOMAIN call.args
    /\ Arg(call.args, "X_pending", None) = Some("X_pending")
    /\ Returned(call.out)

(***************************************************************************)
(* Multi-fidelity input constructors                                       *)
(***************************************************************************)
DefaultCostIntercept == 1
DefaultNumTraceObservations == 0
DefaultFidelityWeight == 1

FidelityDims == {0, 1, 2}   \* the input columns that may be fidelities
FidelityValues == {1, 2}    \* target fidelities, and fidelity weights

\* Dict[int, float] over the fidelity columns
FidelityDicts == UNION {[D -> FidelityValues] : D \in SUBSET FidelityDims}

\* sorted(S) of a set of integers
RECURSIVE sorted(_)
sorted(S) ==
    IF S = {} THEN <<>>
    ELSE LET least == CHOOSE x \in S : \A y \in S : x <= y
         IN  <<least>> \o sorted(S \ {least})

\* A variant of construct_inputs_mf_base that accepts fidelity weights for a
\* subset of the target fidelities.
construct_inputs_mf_base_subset(kw) ==
    LET target_fidelities == kw.target_fidelities
        fidelity_weights == IF Arg(kw, "fidelity_weights", None) = None
                            THEN [f \in DOMAIN target_fidelities |-> DefaultFidelityWeight]
                            ELSE kw.fidelity_weights[1]
    IN  IF ~(DOMAIN fidelity_weights \subseteq DOMAIN target_fidelities)
        THEN Raise("RuntimeError", "Must provide the same indices for target_fidelities and fidelity_weights.")
        ELSE Return([target_fidelities |-> target_fidelities,
                     cost_aware_utility |-> [cls |-> "InverseCostWeightedUtility",
                        cost_model |-> [cls |-> "AffineFidelityCostModel",
                                        fidelity_weights |-> fidelity_weights,
                                        fixed_cost |-> Arg(kw, "cost_intercept", DefaultCostIntercept)]],
                     expand |-> [callable |-> "expand_trace_observations",
                                 fidelity_dims |-> sorted(DOMAIN target_fidelities),
                                 num_trace_obs |-> Arg(kw, "num_trace_observations", DefaultNumTraceObservations)],
                     project |-> [callable |-> "project_to_target_fidelity",
                                  target_fidelities |-> target_fidelities]])

\* construct_inputs_mf_base: the two lambdas it returns are the closures
\* over the arguments of the functions they call.
construct_inputs_mf_base(kw) ==
    LET model == kw.model
        training_data == kw.training_data
        target_fidelities == kw.target_fidelities
        cost_intercept == Arg(kw, "cost_intercept", DefaultCostIntercept)
        num_trace_observations == Arg(kw, "num_trace_observations", DefaultNumTraceObservations)
        fidelity_weights == IF Arg(kw, "fidelity_weights", None) = None
                            THEN [f \in DOMAIN target_fidelities |-> DefaultFidelityWeight]
                            ELSE kw.fidelity_weights[1]
        cost_aware_utility == [cls |-> "InverseCostWeightedUtility",
                               cost_model |-> [cls |-> "AffineFidelityCostModel",
                                               fidelity_weights |-> fidelity_weights,
                                               fixed_cost |-> cost_intercept]]
    IN  IF DOMAIN target_fidelities # DOMAIN fidelity_weights
        THEN Raise("RuntimeError", "Must provide the same indices for target_fidelities and fidelity_weights.")
        ELSE Return([target_fidelities |-> target_fidelities,
                     cost_aware_utility |-> cost_aware_utility,
                     expand |-> [callable |-> "expand_trace_observations",
                                 fidelity_dims |-> sorted(DOMAIN target_fidelities),
                                 num_trace_obs |-> num_trace_observations],
                     project |-> [callable |-> "project_to_target_fidelity",
                                  target_fidelities |-> target_fidelities]])

\* The keyword arguments of a call of construct_inputs_mf_base.
MultiFidelityKwargs ==
    WithOptional(
        WithOptional(
            WithOptional(
                WithRequired({[model |-> "model", training_data |-> "training_data"]},
                             "target_fidelities", FidelityDicts),
                "fidelity_weights", {None} \cup {Some(d) : d \in FidelityDicts}),
            "cost_intercept", {2}),
        "num_trace_observations", {1})

InitMultiFidelity ==
    /\ InitModule
    /\ \E kw \in MultiFidelityKwargs : call = Call("construct_inputs_mf_base", kw)

ConstructInputsMfBase ==
    Apply("construct_inputs_mf_base", construct_inputs_mf_base(call.args))

NextMultiFidelity == ConstructInputsMfBase

SpecMultiFidelity == InitMultiFidelity /\ [][NextMultiFidelity]_vars

\* C8: construct_inputs_mf_base raises RuntimeError exactly when the keys of
\* fidelity_weights differ from the keys of target_fidelities; without
\* fidelity_weights the weights are 1.0 on the target-fidelity keys and the
\* call succeeds; the bundle it returns holds target_fidelities unchanged, a
\* cost-aware utility and the two callables expand and project.
C8_MfBaseKeySets ==
    Done("construct_inputs_mf_base") =>
        LET target_fidelities == call.args.target_fidelities
            fidelity_weights == Arg(call.args, "fidelity_weights", None)
            differ == /\ fidelity_weights # None
                      /\ DOMAIN fidelity_weights[1] # DOMAIN target_fidelities
        IN  /\ Raised(call.out, "RuntimeError") <=> differ
            /\ ~differ =>
                /\ Returned(call.out)
                /\ DOMAIN call.out.value =
                        {"target_fidelities", "cost_aware_utility", "expand", "project"}
                /\ call.out.value.target_fidelities = target_fidelities
                /\ call.out.value.cost_aware_utility.cls = "InverseCostWeightedUtility"
                /\ call.out.value.expand.callable = "expand_trace_observations"
                /\ call.out.value.project.callable = "project_to_target_fidelity"
                /\ fidelity_weights = None =>
                        call.out.value.cost_aware_utility.cost_model.fidelity_weights
                            = [f \in DOMAIN target_fidelities |-> 1]

\* C8's case: target_fidelities {0: 1, 1: 1} with fidelity_weights {0: 1} fails.
C8_Witness ==
    /\ Done("construct_inputs_mf_base")
    /\ call.args.target_fidelities = [f \in {0, 1} |-> 1]
    /\ Arg(call.args, "fidelity_weights", None) = Some([f \in {0} |-> 1])
    /\ Raised(call.out, "RuntimeError")

(***************************************************************************)
(* Input constructors of the hypervolume-improvement acquisition functions *)
(***************************************************************************)
MaxPosteriorRows == 2           \* observed inputs at which the posterior is taken
PosteriorValues == {1, 2}       \* posterior means
ThresholdValues == {0, 1}       \* objective thresholds
AlphaValues == {0, 1, 2}        \* partitioning alpha, in units of the smallest
SeedValues == {1, 9999}         \* torch.randint(1, 10000, (1,))
DefaultMcSamples == 128
DefaultEta == 1                 \* 1e-3, in thousandths

\* model.posterior(X).mean for a model of m outcomes: a tensor of one row per
\* observed input
PosteriorMeans(m) == UNION {[1..n -> [1..m -> PosteriorValues]] : n \in 1..MaxPosteriorRows}

\* the objectives of the hypervolume acquisition functions, over m outcomes
IdentityAnalyticMultiOutputObjective ==
    [kind |-> "IdentityAnalyticMultiOutputObjective", weights |-> <<>>]

IdentityMCMultiOutputObjective == [kind |-> "IdentityMCMultiOutputObjective", weights |-> <<>>]

WeightedMCMultiOutputObjectives(m) ==
    {[kind |-> "WeightedMCMultiOutputObjective", weights |-> w] : w \in [1..m -> WeightValues]}

\* objective(t) of a one-dimensional tensor t of outcomes
MultiOutputObjective_row(objective, t) ==
    IF objective.kind = "WeightedMCMultiOutputObjective"
    THEN [j \in 1..Len(t) |-> t[j] * objective.weights[j]]
    ELSE t

\* objective(Y) of a tensor of one row per point
MultiOutputObjective_forward(objective, Y) ==
    [i \in 1..Len(Y) |-> MultiOutputObjective_row(objective, Y[i])]

\* get_default_partitioning_alpha(num_objectives): the library's default, which
\* the environment env of the call fixes for each number of objectives
get_default_partitioning_alpha(env, num_objectives) == env.default_alpha[num_objectives]

\* outcome constraints (A, b), A y <= b, as the sequence of their rows
OutcomeConstraints(m) ==
    {<<[a |-> [j \in 1..m |-> IF j = 1 THEN 1 ELSE 0], b |-> 1]>>,
     <<[a |-> [j \in 1..m |-> 1], b |-> 3], [a |-> [j \in 1..m |-> IF j = m THEN -1 ELSE 0], b |-> -2]>>}

\* get_outcome_constraint_transforms(outcome_constraints): one callable per row,
\* c(Y) = a . Y - b
get_outcome_constraint_transforms(outcome_constraints) == outcome_constraints

ConstraintTransform(c, y) == Dot(y, c.a) - c.b

\* A variant of Feasible that asks for one satisfied constraint only.
Feasible_any(cons_tfs, y) == \E k \in DOMAIN cons_tfs : ConstraintTransform(cons_tfs[k], y) <= 0

\* torch.stack([c(Y_pmean) <= 0 for c in cons_tfs], dim=-1).all(dim=-1), for the row y
Feasible(cons_tfs, y) == \A k \in DOMAIN cons_tfs : ConstraintTransform(cons_tfs[k], y) <= 0

\* Y[feas]
RECURSIVE Select(_, _)
Select(Y, cons_tfs) ==
    IF Y = <<>> THEN <<>>
    ELSE IF Feasible(cons_tfs, Head(Y)) THEN <<Head(Y)>> \o Select(Tail(Y), cons_tfs)
    ELSE Select(Tail(Y), cons_tfs)

\* _get_sampler(mc_samples, qmc), with the seed the environment draws
_get_sampler(env, mc_samples, qmc) ==
    [cls |-> IF qmc THEN "SobolQMCNormalSampler" ELSE "IIDNormalSampler",
     num_samples |-> mc_samples, seed |-> env.seed]

\* The outcome of a constructor that queries the model: posterior_calls counts
\* the calls of model.posterior.
RaiseAfter(e, msg, n) == [raised |-> e, msg |-> msg, posterior_calls |-> n]
ReturnAfter(v, n) == [raised |-> "none", value |-> v, posterior_calls |-> n]

\* A variant of construct_inputs_EHVI that takes the approximate partitioning
\* also for alpha = 0.
construct_inputs_EHVI_approximate(kw, env) ==
    LET objective_thresholds == kw.objective_thresholds
        alpha == Arg(kw, "alpha", get_default_partitioning_alpha(env, Len(objective_thresholds)))
        objective == IF Arg(kw, "objective", NoObjective).kind = "None"
                     THEN IdentityAnalyticMultiOutputObjective ELSE kw.objective
        ref_point == MultiOutputObjective_row(objective, objective_thresholds)
        given == Arg(kw, "Y_pmean", None)
        Y_pmean == IF given = None THEN kw.model.posterior_mean ELSE given[1]
        partitioning ==
            IF alpha >= 0
            THEN [cls |-> "NondominatedPartitioning", ref_point |-> ref_point,
                  Y |-> MultiOutputObjective_forward(objective, Y_pmean), alpha |-> alpha]
            ELSE [cls |-> "FastNondominatedPartitioning", ref_point |-> ref_point,
                  Y |-> MultiOutputObjective_forward(objective, Y_pmean)]
    IN  IF Arg(kw, "outcome_constraints", None) # None
        THEN RaiseAfter("NotImplementedError", "EHVI does not yet support outcome constraints.", 0)
        ELSE ReturnAfter([model |-> kw.model, ref_point |-> ref_point,
                          partitioning |-> partitioning, objective |-> objective],
                         IF given = None THEN 1 ELSE 0)

construct_inputs_EHVI(kw, env) ==
    LET model == kw.model
        training_data == kw.training_data
        objective_thresholds == kw.objective_thresholds
        num_objectives == Len(objective_thresholds)
        X_observed == training_data.X
        alpha == Arg(kw, "alpha", get_default_partitioning_alpha(env, num_objectives))
        objective == IF Arg(kw, "objective", NoObjective).kind = "None"
                     THEN IdentityAnalyticMultiOutputObjective ELSE kw.objective
        ref_point == MultiOutputObjective_row(objective, objective_thresholds)
        given == Arg(kw, "Y_pmean", None)
        Y_pmean == IF given = None THEN model.posterior_mean ELSE given[1]
        partitioning ==
            IF alpha > 0
            THEN [cls |-> "NondominatedPartitioning", ref_point |-> ref_point,
                  Y |-> MultiOutputObjective_forward(objective, Y_pmean), alpha |-> alpha]
            ELSE [cls |-> "FastNondominatedPartitioning", ref_point |-> ref_point,
                  Y |-> MultiOutputObjective_forward(objective, Y_pmean)]
    IN  IF Arg(kw, "outcome_constraints", None) # None
        THEN RaiseAfter("NotImplementedError", "EHVI does not yet support outcome constraints.", 0)
        ELSE ReturnAfter([model |-> model, ref_point |-> ref_point,
                          partitioning |-> partitioning, objective |-> objective],
                         IF given = None THEN 1 ELSE 0)

\* A variant of Pop that leaves name among the keyword arguments.
Pop_get(kw, name) == kw

\* kwargs.pop(name, None): the keyword arguments without name
Pop(kw, name) == [k \in (DOMAIN kw) \ {name} |-> kw[k]]

construct_inputs_qEHVI(kw, env) ==
    LET model == kw.model
        training_data == kw.training_data
        objective_thresholds == kw.objective_thresholds
        X_observed == training_data.X
        posterior_mean == model.posterior_mean
        outcome_constraints == Arg(kw, "outcome_constraints", None)
        kwargs == Pop(kw, "outcome_constraints")
        cons_tfs == IF outcome_constraints = None THEN None
                    ELSE Some(get_outcome_constraint_transforms(outcome_constraints[1]))
        Y_pmean == IF outcome_constraints = None THEN posterior_mean
                   ELSE Select(posterior_mean, cons_tfs[1])
        objective == IF Arg(kw, "objective", NoObjective).kind = "None"
                     THEN IdentityMCMultiOutputObjective ELSE kw.objective
        ehvi_kwargs == construct_inputs_EHVI(
            SetItem(SetItem(kwargs, "objective", objective), "Y_pmean", Some(Y_pmean)), env)
        sampler == IF Arg(kwargs, "sampler", None) = None
                   THEN Some(_get_sampler(env, Arg(kwargs, "mc_samples", DefaultMcSamples),
                                          Arg(kwargs, "qmc", TRUE)))
                   ELSE kwargs.sampler
        add_qehvi_kwargs == [sampler |-> sampler, X_pending |-> Arg(kwargs, "X_pending", None),
                             constraints |-> cons_tfs, eta |-> Arg(kwargs, "eta", DefaultEta)]
    IN  IF "Y_pmean" \in DOMAIN kwargs
        THEN RaiseAfter("TypeError", "got multiple values for keyword argument 'Y_pmean'", 1)
        ELSE IF ~Returned(ehvi_kwargs)
        THEN RaiseAfter(ehvi_kwargs.raised, ehvi_kwargs.msg, 1 + ehvi_kwargs.posterior_calls)
        ELSE ReturnAfter(Merge(ehvi_kwargs.value, add_qehvi_kwargs),
                         1 + ehvi_kwargs.posterior_calls)

\* training_data.X: the training inputs of block-design data. What the read
\* gives for other data is decided outside this module: the environment env
\* of the call fixes whether it fails or returns the inputs of one outcome.
TrainingData_X(training_data, env) ==
    IF training_data.is_block_design \/ env.X_read = "returns"
    THEN ReturnAfter(training_data.X, 0)
    ELSE RaiseAfter("UnsupportedError", "", 0)

construct_inputs_qNEHVI(kw, env) ==
    LET model == kw.model
        training_data == kw.training_data
        objective_thresholds == kw.objective_thresholds
        objective == IF Arg(kw, "objective", NoObjective).kind = "None"
                     THEN IdentityMCMultiOutputObjective ELSE kw.objective
        outcome_constraints == Arg(kw, "outcome_constraints", None)
        kwargs == Pop(kw, "outcome_constraints")
        cons_tfs == IF outcome_constraints = None THEN None
                    ELSE Some(get_outcome_constraint_transforms(outcome_constraints[1]))
        sampler == IF Arg(kwargs, "sampler", None) = None
                   THEN Some(_get_sampler(env, Arg(kwargs, "mc_samples", DefaultMcSamples),
                                          Arg(kwargs, "qmc", TRUE)))
                   ELSE kwargs.sampler
        \* the default of kwargs.get is evaluated before the lookup
        default == TrainingData_X(training_data, env)
    IN  IF ~Returned(default) THEN default
        ELSE ReturnAfter(
                 [model |-> model,
                  ref_point |-> MultiOutputObjective_row(objective, objective_thresholds),
                  X_baseline |-> Arg(kwargs, "X_baseline", Some(default.value)),
                  sampler |-> sampler,
                  objective |-> objective,
                  constraints |-> cons_tfs,
                  X_pending |-> Arg(kwargs, "X_pending", None),
                  eta |-> Arg(kwargs, "eta", DefaultEta),
                  prune_baseline |-> Arg(kwargs, "prune_baseline", TRUE),
                  alpha |-> Arg(kwargs, "alpha", 0),
                  cache_pending |-> Arg(kwargs, "cache_pending", TRUE),
                  max_iep |-> Arg(kwargs, "max_iep", 0),
                  incremental_nehvi |-> Arg(kwargs, "incremental_nehvi", TRUE)], 0)

(***************************************************************************)
(* The hypervolume constructors, called on every model and arguments       *)
(***************************************************************************)
CallIn(op, args, env) == [op |-> op, args |-> args, env |-> env, out |-> Pending]

\* The environment of a call of op: the library's default alpha for each number
\* of objectives, the seed torch.randint draws, and what reading the inputs of
\* training data that is not block design gives. Each is fixed where the call
\* does not use it.
Environments(op, kw) ==
    {[default_alpha |-> d, seed |-> seed, X_read |-> x] :
        d \in IF "alpha" \in DOMAIN kw \/ op \notin {"construct_inputs_EHVI", "construct_inputs_qEHVI"}
              THEN {[n \in OutcomeCounts |-> 0]}
              ELSE [OutcomeCounts -> AlphaValues \ {2}],
        seed \in IF "sampler" \in DOMAIN kw \/ op \notin {"construct_inputs_qEHVI", "construct_inputs_qNEHVI"}
                 THEN {1} ELSE SeedValues,
        x \in IF kw.training_data.is_block_design \/ op # "construct_inputs_qNEHVI"
              THEN {"returns"} ELSE {"raises", "returns"}}

HypervolumeOps ==
    {"construct_inputs_EHVI", "construct_inputs_qEHVI", "construct_inputs_qNEHVI"}

\* The keyword arguments of a call of op for a model of m outcomes.
HypervolumeKwargs(op, m) ==
    LET required ==
            {[model |-> [name |-> "model", posterior_mean |-> pm],
              training_data |-> [is_block_design |-> TRUE, X |-> "X_train"],
              objective_thresholds |-> t] :
                pm \in PosteriorMeans(m), t \in [1..m -> ThresholdValues]}
        common ==
            WithOptional(
                WithOptional(
                    WithOptional(required, "objective", WeightedMCMultiOutputObjectives(m)),
                    "alpha", AlphaValues),
                "outcome_constraints", {Some(c) : c \in OutcomeConstraints(m)})
    IN  CASE op = "construct_inputs_EHVI" ->
                WithOptional(common, "Y_pmean", {Some(<<[j \in 1..m |-> 2]>>)})
          [] op = "construct_inputs_qEHVI" ->
                WithOptional(WithOptional(common, "sampler", {Some("sampler")}),
                             "X_pending", {Some("X_pending")})
                \cup WithRequired(required, "Y_pmean", {Some(<<[j \in 1..m |-> 2]>>)})
          [] op = "construct_inputs_qNEHVI" ->
                WithOptional(
                    WithOptional(
                        WithOptional(
                            {kw \in required : Len(kw.model.posterior_mean) = 1},
                            "objective", WeightedMCMultiOutputObjectives(m)),
                        "outcome_constraints", {None} \cup {Some(c) : c \in OutcomeConstraints(m)}),
                    "sampler", {Some("sampler")})

InitHypervolume ==
    /\ InitModule
    /\ \E op \in HypervolumeOps, m \in OutcomeCounts :
         \E kw \in HypervolumeKwargs(op, m) :
            \E env \in Environments(op, kw) : call = CallIn(op, kw, env)

ConstructInputsEHVI ==
    Apply("construct_inputs_EHVI", construct_inputs_EHVI(call.args, call.env))

ConstructInputsQEHVI ==
    Apply("construct_inputs_qEHVI", construct_inputs_qEHVI(call.args, call.env))

ConstructInputsQNEHVI ==
    Apply("construct_inputs_qNEHVI", construct_inputs_qNEHVI(call.args, call.env))

NextHypervolume == ConstructInputsEHVI \/ ConstructInputsQEHVI \/ ConstructInputsQNEHVI

SpecHypervolume == InitHypervolume /\ [][NextHypervolume]_vars

\* C9: construct_inputs_EHVI, and construct_inputs_qEHVI through it, choose
\* the partitioning by alpha alone: FastNondominatedPartitioning for alpha = 0,
\* NondominatedPartitioning with that alpha for alpha > 0, where alpha is the
\* caller's or, if not given, the default for the number of objective
\* thresholds; on both paths the ref_point returned and the ref_point of the
\* partitioning are the objective applied to the thresholds (the thresholds
\* themselves when no objective is given).
C9_PartitioningByAlpha ==
    (call.op \in {"construct_inputs_EHVI", "construct_inputs_qEHVI"}
        /\ call.out # Pending /\ Returned(call.out)) =>
        LET thresholds == call.args.objective_thresholds
            alpha == IF "alpha" \in DOMAIN call.args THEN call.args.alpha
                     ELSE call.env.default_alpha[Len(thresholds)]
            ref_point == IF "objective" \in DOMAIN call.args
                         THEN [j \in 1..Len(thresholds) |->
                                 call.args.objective.weights[j] * thresholds[j]]
                         ELSE thresholds
            bundle == call.out.value
        IN  /\ alpha = 0 => bundle.partitioning.cls = "FastNondominatedPartitioning"
            /\ alpha > 0 => /\ bundle.partitioning.cls = "NondominatedPartitioning"
                            /\ bundle.partitioning.alpha = alpha
            /\ bundle.ref_point = ref_point
            /\ bundle.partitioning.ref_point = ref_point

\* C9's case: construct_inputs_qEHVI without alpha, where the default is
\* positive, and with an objective that changes the thresholds.
C9_Witness ==
    /\ Done("construct_inputs_qEHVI")
    /\ Returned(call.out)
    /\ "alpha" \notin DOMAIN call.args
    /\ call.env.default_alpha[Len(call.args.objective_thresholds)] > 0
    /\ call.out.value.partitioning.cls = "NondominatedPartitioning"
    /\ call.out.value.ref_point # call.args.objective_thresholds

\* C15: construct_inputs_EHVI called with outcome_constraints other than None
\* raises NotImplementedError without a query of the posterior and without a
\* bundle (so no partitioning); construct_inputs_qEHVI and
\* construct_inputs_qNEHVI never raise NotImplementedError, and the bundle they
\* return holds under constraints the transforms of the caller's
\* outcome_constraints, or None when the caller gives none.
C15_OutcomeConstraints ==
    LET outcome_constraints == Arg(call.args, "outcome_constraints", None)
    IN  /\ (Done("construct_inputs_EHVI") /\ outcome_constraints # None) =>
              /\ Raised(call.out, "NotImplementedError")
              /\ call.out.posterior_calls = 0
        /\ (Done("construct_inputs_qEHVI") \/ Done("construct_inputs_qNEHVI")) =>
              /\ ~Raised(call.out, "NotImplementedError")
              /\ Returned(call.out) =>
                    call.out.value.constraints =
                        IF outcome_constraints = None THEN None
                        ELSE Some(get_outcome_constraint_transforms(outcome_constraints[1]))

\* C15's case: construct_inputs_qEHVI, which calls construct_inputs_EHVI, has
\* returned the transforms of the outcome constraints it was given.
C15_Witness ==
    /\ Done("construct_inputs_qEHVI")
    /\ Arg(call.args, "outcome_constraints", None) # None
    /\ Returned(call.out)
    /\ call.out.value.constraints # None
    /\ call.out.value.partitioning.Y # <<>>

\* C16: the partitioning that construct_inputs_qEHVI returns is built from the
\* objective applied to the rows of the posterior mean that satisfy every
\* outcome constraint (a . y <= b), in their order, and to all rows when there
\* are no constraints; the posterior is queried once, so construct_inputs_EHVI
\* uses these rows and computes none of its own.
C16_PartitioningOfFeasibleRows ==
    (Done("construct_inputs_qEHVI") /\ Returned(call.out)) =>
        LET posterior_mean == call.args.model.posterior_mean
            outcome_constraints == Arg(call.args, "outcome_constraints", None)
            Satisfies(y) == \A k \in DOMAIN outcome_constraints[1] :
                               Dot(y, outcome_constraints[1][k].a) <= outcome_constraints[1][k].b
            rows == IF outcome_constraints = None THEN posterior_mean
                    ELSE SelectSeq(posterior_mean, Satisfies)
            Objective(y) == IF "objective" \in DOMAIN call.args
                            THEN [j \in 1..Len(y) |-> call.args.objective.weights[j] * y[j]]
                            ELSE y
        IN  /\ call.out.value.partitioning.Y = [i \in 1..Len(rows) |-> Objective(rows[i])]
            /\ call.out.posterior_calls = 1

\* C16's case: a constraint has removed a row of the posterior mean and kept
\* another, and the objective has changed the rows kept.
C16_Witness ==
    /\ Done("construct_inputs_qEHVI")
    /\ Returned(call.out)
    /\ Arg(call.args, "outcome_constraints", None) # None
    /\ "objective" \in DOMAIN call.args
    /\ Len(call.out.value.partitioning.Y) = 1
    /\ Len(call.args.model.posterior_mean) = 2
    /\ call.out.value.partitioning.Y[1] \notin Range(call.args.model.posterior_mean)

(***************************************************************************)
(* The constructors with a baseline, called on every data and baseline     *)
(***************************************************************************)
BaselineOps ==
    {"construct_inputs_noisy_ei", "construct_inputs_qNEI", "construct_inputs_qNEHVI"}

\* The keyword arguments of a call of op: data that is block design or not, and
\* a baseline that the caller passes, passes as None or leaves out.
BaselineKwargs(op) ==
    LET required == {[model |-> "model",
                      training_data |-> [is_block_design |-> b, X |-> "X_train"]] :
                        b \in BOOLEAN}
    IN  CASE op = "construct_inputs_noisy_ei" ->
                WithOptional(
                    WithOptional(WithOptional(required, "X_observed", {"X_caller"}),
                                 "num_fantasies", {5}),
                    "maximize", {FALSE})
          [] op = "construct_inputs_qNEI" ->
                WithOptional(
                    WithOptional(WithOptional(required, "X_baseline", {None, Some("X_caller")}),
                                 "prune_baseline", {TRUE}),
                    "X_pending", {Some("X_pending")})
          [] op = "construct_inputs_qNEHVI" ->
                WithOptional(
                    WithOptional(
                        WithOptional(
                            WithRequired(required, "objective_thresholds",
                                         [1..2 -> ThresholdValues]),
                            "X_baseline", {None, Some("X_caller")}),
                        "prune_baseline", {FALSE}),
                    "sampler", {Some("sampler")})

InitBaseline ==
    /\ InitModule
    /\ \E op \in BaselineOps :
         \E kw \in BaselineKwargs(op) :
            \E env \in Environments(op, kw) : call = CallIn(op, kw, env)

NextBaseline == ConstructInputsNoisyEi \/ ConstructInputsQNEI \/ ConstructInputsQNEHVI

SpecBaseline == InitBaseline /\ [][NextBaseline]_vars

MaxDim == 3                     \* d, the columns of bounds
MaxConstraints == 2             \* k, the rows of the linear constraints
DefaultOptimizeMcSamples == 512
DefaultOptimizerOptions ==
    [num_restarts |-> 60, raw_samples |-> 1024, batch_limit |-> 8, maxiter |-> 200,
     nonnegative |-> FALSE, method |-> "L-BFGS-B"]

\* A variant of IsMCAcquisitionObjective that knows the objectives with weights
\* only.
IsMCAcquisitionObjective_weighted(objective) == objective.weights # <<>>

\* isinstance(objective, MCAcquisitionObjective)
IsMCAcquisitionObjective(objective) ==
    objective.kind \in {"GenericMCObjective", "LinearMCObjective", "IdentityMCObjective"}

\* tensors of indices and coefficients: of dimension 0 (one item) or 1
Tensor0(v) == [shape |-> <<>>, data |-> <<v>>]
Tensor1(s) == [shape |-> <<Len(s)>>, data |-> s]

\* row.nonzero(as_tuple=False).squeeze(): the zero-based indices of the nonzero
\* entries, in increasing order; squeeze makes a single index a 0-dim tensor
nonzero_squeeze(row) ==
    LET found == sorted({j - 1 : j \in {x \in DOMAIN row : row[x] # 0}})
    IN  IF Len(found) = 1 THEN Tensor0(found[1]) ELSE Tensor1(found)

\* A variant of inequality_constraint that keeps the signs of A and b.
inequality_constraint_unsigned(A, b, i) ==
    LET indicies == nonzero_squeeze(A[i])
    IN  <<indicies, [indicies EXCEPT !.data = [n \in DOMAIN indicies.data |->
                                                  A[i][indicies.data[n] + 1]]], b[i][1]>>

\* the tuple of row i (from 1) of the linear constraints A x <= b
inequality_constraint(A, b, i) ==
    LET indicies == nonzero_squeeze(A[i])
        coefficients == [indicies EXCEPT !.data = [n \in DOMAIN indicies.data |->
                                                      -A[i][indicies.data[n] + 1]]]
        rhs == -b[i][1]
    IN  <<indicies, coefficients, rhs>>

\* The outcome of a function that calls optimize_acqf: optimize_acqf holds
\* the arguments of its calls, in order.
RaiseOptimized(e, msg, calls) == [raised |-> e, msg |-> msg, optimize_acqf |-> calls]
ReturnOptimized(v, calls) == [raised |-> "none", value |-> v, optimize_acqf |-> calls]

\* optimize_objective(**kw); optimize_acqf returns what the environment env of
\* the call fixes. A tensor of bounds is the sequence of its two rows, so that
\* len(bounds) is Len(bounds) and bounds.shape[-1] is Len(bounds[1]).
optimize_objective(kw, env) ==
    LET model == kw.model
        objective == kw.objective
        bounds == kw.bounds
        q == kw.q
        linear_constraints == Arg(kw, "linear_constraints", None)
        fixed_features == Arg(kw, "fixed_features", None)
        qmc == Arg(kw, "qmc", TRUE)
        mc_samples == Arg(kw, "mc_samples", DefaultOptimizeMcSamples)
        seed_inner == Arg(kw, "seed_inner", None)
        optimizer_options == IF Arg(kw, "optimizer_options", None) = None
                             THEN [o \in {} |-> 0] ELSE kw.optimizer_options[1]
        post_processing_func == Arg(kw, "post_processing_func", None)
        batch_initial_conditions == Arg(kw, "batch_initial_conditions", None)
        sequential == Arg(kw, "sequential", FALSE)
        sampler_cls == IF qmc THEN "SobolQMCNormalSampler" ELSE "IIDNormalSampler"
        base == IF IsMCAcquisitionObjective(objective)
                THEN [cls |-> "qSimpleRegret", model |-> model, objective |-> objective,
                      sampler |-> [cls |-> sampler_cls, num_samples |-> mc_samples,
                                   seed |-> seed_inner]]
                ELSE [cls |-> "PosteriorMean", model |-> model, objective |-> objective]
        \* if fixed_features: neither None nor empty
        fixed == fixed_features # None /\ DOMAIN fixed_features[1] # {}
        columns == sorted(DOMAIN fixed_features[1])
        acq_function ==
            IF fixed
            THEN [cls |-> "FixedFeatureAcquisitionFunction", acq_function |-> base,
                  d |-> Len(bounds[1]), columns |-> columns,
                  values |-> [n \in 1..Len(columns) |-> fixed_features[1][columns[n]]]]
            ELSE base
        \* list(range(len(bounds)) - fixed_features.keys())
        free_feature_dims == sorted((0..(Len(bounds) - 1)) \ DOMAIN fixed_features[1])
        free_feature_bounds ==
            IF fixed
            THEN [r \in 1..Len(bounds) |->
                    [n \in 1..Len(free_feature_dims) |-> bounds[r][free_feature_dims[n] + 1]]]
            ELSE bounds
        inequality_constraints ==
            IF linear_constraints = None THEN None
            ELSE LET A == linear_constraints[1].A
                     b == linear_constraints[1].b
                 IN  Some([i \in 1..Len(A) |-> inequality_constraint(A, b, i)])
    IN  IF fixed /\ \E n \in 1..Len(free_feature_dims) : free_feature_dims[n] >= Len(bounds[1])
        THEN RaiseOptimized("IndexError", "index is out of bounds", <<>>)
        ELSE ReturnOptimized(env.optimize_acqf,
                 <<[acq_function |-> acq_function,
                    bounds |-> free_feature_bounds,
                    q |-> q,
                    num_restarts |-> Arg(optimizer_options, "num_restarts", 60),
                    raw_samples |-> Arg(optimizer_options, "raw_samples", 1024),
                    options |-> [batch_limit |-> Arg(optimizer_options, "batch_limit", 8),
                                 maxiter |-> Arg(optimizer_options, "maxiter", 200),
                                 nonnegative |-> Arg(optimizer_options, "nonnegative", FALSE),
                                 method |-> Arg(optimizer_options, "method", "L-BFGS-B")],
                    inequality_constraints |-> inequality_constraints,
                    fixed_features |-> None,
                    post_processing_func |-> post_processing_func,
                    batch_initial_conditions |-> batch_initial_conditions,
                    return_best_only |-> TRUE,
                    sequential |-> sequential]>>)

(***************************************************************************)
(* optimize_objective, called on every objective, bounds and constraints   *)
(***************************************************************************)
\* what optimize_acqf returns: the best points and their values
OptimizeAcqfResults == {<<"candidates", <<1>>>>, <<"candidates", <<2, 3>>>>}

OptimizeObjectives ==
    ScalarizedObjectives(1) \cup MCObjectives(1) \cup {IdentityMCObjective, NoObjective}

\* a tensor of bounds of d columns, each column with an upper bound of its own
OptimizeBounds(d) == <<[j \in 1..d |-> 0], [j \in 1..d |-> 10 * j]>>

\* the ways to fix features of d dimensions and leave at least one free
FixedFeatures(d) ==
    {None} \cup {Some([j \in K |-> 5 + j]) : K \in (SUBSET (0..(d - 1))) \ {0..(d - 1)}}

OptimizerOptions ==
    {None, Some([o \in {} |-> 0]), Some([num_restarts |-> 5]),
     Some([maxiter |-> 10, method |-> "SLSQP"]),
     Some([num_restarts |-> 5, raw_samples |-> 16, batch_limit |-> 2, maxiter |-> 10,
           nonnegative |-> TRUE, method |-> "SLSQP"])}

\* linear constraints (A, b) with A of k rows and d columns and b of k rows
LinearConstraints(k, d) ==
    {[A |-> A, b |-> b] : A \in [1..k -> [1..d -> {-1, 0, 2}]],
                          b \in {[i \in 1..k |-> <<3>>], [i \in 1..k |-> <<-i>>]}}

\* the required arguments of a call of optimize_objective
OptimizeRequired(objective, d, q) ==
    [model |-> "model", objective |-> objective, bounds |-> OptimizeBounds(d), q |-> q]

\* The keyword arguments of the calls with every objective and the options of
\* the surrogate and of the optimizer.
SurrogateKwargs(objective, q) ==
    WithOptional(
        WithOptional(
            WithOptional(
                WithOptional(
                    WithOptional(
                        WithOptional({OptimizeRequired(objective, 2, q)}, "qmc", {FALSE}),
                        "mc_samples", {64}),
                    "seed_inner", {Some(7)}),
                "optimizer_options", OptimizerOptions),
            "sequential", {TRUE}),
        "post_processing_func", {Some("post_processing_func")})

\* The calls of optimize_objective: every objective with the options of the
\* surrogate and of the optimizer, every way to fix features of bounds of up
\* to MaxDim columns, and every linear constraint of up to MaxConstraints rows.
InitOptimize ==
    /\ InitModule
    /\ \/ \E o \in OptimizeObjectives, q \in {1, 2}, r \in OptimizeAcqfResults :
            \E kw \in SurrogateKwargs(o, q) :
               call = CallIn("optimize_objective", kw, [optimize_acqf |-> r])
       \/ \E o \in {IdentityMCObjective, NoObjective}, d \in 1..MaxDim,
             r \in OptimizeAcqfResults :
            \E kw \in WithOptional({OptimizeRequired(o, d, 1)}, "fixed_features",
                                   FixedFeatures(d)) :
               call = CallIn("optimize_objective", kw, [optimize_acqf |-> r])
       \/ \E k \in 0..MaxConstraints, d \in {2, 3} :
            \E c \in {None} \cup {Some(lc) : lc \in LinearConstraints(k, d)} :
               call = CallIn("optimize_objective",
                             SetItem(OptimizeRequired(NoObjective, d, 1),
                                     "linear_constraints", c),
                             [optimize_acqf |-> <<"candidates", <<1>>>>])

OptimizeObjective == Apply("optimize_objective", optimize_objective(call.args, call.env))

NextOptimize == OptimizeObjective

SpecOptimize == InitOptimize /\ [][NextOptimize]_vars

C18_LinearConstraints ==
    (Done("optimize_objective") /\ Returned(call.out)) =>
        LET linear_constraints == Arg(call.args, "linear_constraints", None)
            inequality_constraints == call.out.optimize_acqf[1].inequality_constraints
        IN  IF linear_constraints = None THEN inequality_constraints = None
            ELSE LET A == linear_constraints[1].A
                     b == linear_constraints[1].b
                 IN  /\ inequality_constraints # None
                     /\ Len(inequality_constraints[1]) = Len(A)
                     /\ \A i \in 1..Len(A) :
                          LET indices == inequality_constraints[1][i][1].data
                              coefficients == inequality_constraints[1][i][2].data
                              rhs == inequality_constraints[1][i][3]
                          IN  /\ Range(indices) = {j \in 0..(Len(A[i]) - 1) : A[i][j + 1] # 0}
                              /\ \A n \in 1..(Len(indices) - 1) : indices[n] < indices[n + 1]
                              /\ Len(coefficients) = Len(indices)
                              /\ \A n \in 1..Len(indices) :
                                    coefficients[n] = -A[i][indices[n] + 1]
                              /\ rhs = -b[i][1]

\* C18's case: two rows over three columns, the first with two coefficients
\* of different sign and the second with a single one, and negative bounds.
C18_Witness ==
    /\ Done("optimize_objective")
    /\ Returned(call.out)
    /\ Arg(call.args, "linear_constraints", None) =
          Some([A |-> << <<2, 0, -1>>, <<0, 2, 0>> >>, b |-> << <<-1>>, <<-2>> >>])
    /\ call.out.optimize_acqf[1].inequality_constraints =
          Some(<< <<Tensor1(<<0, 2>>), Tensor1(<<-2, 1>>), 1>>,
                  <<Tensor0(1), Tensor0(-2), 2>> >>)

\* C19: when fixed_features is not empty the surrogate is wrapped to fix these
\* dimensions of the d columns of bounds, and the bounds passed to
\* optimize_acqf are the columns of the free dimensions, 0..d-1 without the
\* fixed ones, for every d; when fixed_features is None or empty the surrogate
\* is not wrapped and the bounds are passed as they are.
C19_FreeFeatureBounds ==
    (Done("optimize_objective") /\ Returned(call.out)) =>
        LET fixed_features == Arg(call.args, "fixed_features", None)
            bounds == call.args.bounds
            d == Len(bounds[1])
            a == call.out.optimize_acqf[1]
        IN  IF fixed_features # None /\ DOMAIN fixed_features[1] # {}
            THEN LET free == sorted((0..(d - 1)) \ DOMAIN fixed_features[1])
                 IN  /\ a.acq_function.cls = "FixedFeatureAcquisitionFunction"
                     /\ a.acq_function.d = d
                     /\ Range(a.acq_function.columns) = DOMAIN fixed_features[1]
                     /\ a.bounds = [r \in 1..2 |->
                                      [n \in 1..Len(free) |-> bounds[r][free[n] + 1]]]
            ELSE /\ a.acq_function.cls # "FixedFeatureAcquisitionFunction"
                 /\ a.bounds = bounds

(***************************************************************************)
(* The constructors that optimize the objective                            *)
(***************************************************************************)
DefaultCandidateSize == 1000
DefaultNumFantasiesKG == 64

\* the keyword arguments that a signature does not name: **kwargs
Rest(kw, named) == [k \in (DOMAIN kw) \ named |-> kw[k]]

\* torch.tensor(bounds).t() of a list of d pairs (lower, upper): 2 x d
Transpose(bounds) == [r \in 1..2 |-> [j \in 1..Len(bounds) |-> bounds[j][r]]]

construct_inputs_qMES(kw, env) ==
    LET model == kw.model
        training_data == kw.training_data
        objective == kw.objective
        bounds == kw.bounds
        candidate_size == Arg(kw, "candidate_size", DefaultCandidateSize)
        kwargs == Rest(kw, {"model", "training_data", "objective", "bounds", "candidate_size"})
        inputs_mc == construct_inputs_mc_base(
            Merge(kwargs, [model |-> model, training_data |-> training_data,
                           objective |-> objective]))
        X == TrainingData_X(training_data, env)
        _bounds == Transpose(bounds)
        \* _bounds[0] + (_bounds[1] - _bounds[0]) * torch.rand(candidate_size, len(bounds))
        candidate_set == [shape |-> <<candidate_size, Len(bounds)>>,
                          lower |-> _bounds[1], upper |-> _bounds[2]]
    IN  IF ~Returned(X) THEN RaiseOptimized(X.raised, X.msg, <<>>)
        ELSE ReturnOptimized(Merge(inputs_mc.value,
                                   [candidate_set |-> candidate_set,
                                    maximize |-> Arg(kwargs, "maximize", TRUE)]), <<>>)

construct_inputs_qKG(kw, env) ==
    LET model == kw.model
        training_data == kw.training_data
        objective == kw.objective
        bounds == kw.bounds
        target_fidelities == Arg(kw, "target_fidelities", None)
        num_fantasies == Arg(kw, "num_fantasies", DefaultNumFantasiesKG)
        kwargs == Rest(kw, {"model", "training_data", "objective", "bounds",
                            "target_fidelities", "num_fantasies"})
        inputs_mc == construct_inputs_mc_base(
            Merge(kwargs, [model |-> model, training_data |-> training_data,
                           objective |-> objective]))
        X == TrainingData_X(training_data, env)
        _bounds == bounds
        optimized == optimize_objective(
            Merge(kwargs, [model |-> model, objective |-> objective,
                           bounds |-> Transpose(_bounds), q |-> 1,
                           target_fidelities |-> target_fidelities]), env)
        current_value == optimized.value[2]
    IN  IF ~Returned(X) THEN RaiseOptimized(X.raised, X.msg, <<>>)
        ELSE IF "q" \in DOMAIN kwargs
        THEN RaiseOptimized("TypeError", "got multiple values for keyword argument 'q'", <<>>)
        ELSE IF ~Returned(optimized) THEN optimized
        ELSE ReturnOptimized(Merge(inputs_mc.value,
                                   [num_fantasies |-> num_fantasies,
                                    current_value |-> TensorMax(current_value)]),
                             optimized.optimize_acqf)

\* A variant of construct_inputs_qMFKG that returns the bundle of
\* construct_inputs_qKG alone.
construct_inputs_qMFKG_single(kw, env) == construct_inputs_qKG(Rest(kw, {"target_fidelities"}), env)

construct_inputs_qMFKG(kw, env) ==
    LET model == kw.model
        training_data == kw.training_data
        objective == kw.objective
        bounds == kw.bounds
        target_fidelities == kw.target_fidelities
        kwargs == Rest(kw, {"model", "training_data", "objective", "bounds",
                            "target_fidelities"})
        inputs_mf == construct_inputs_mf_base(
            Merge(kwargs, [model |-> model, training_data |-> training_data,
                           objective |-> objective, bounds |-> bounds,
                           target_fidelities |-> target_fidelities]))
        inputs_kg == construct_inputs_qKG(
            Merge(kwargs, [model |-> model, training_data |-> training_data,
                           objective |-> objective, bounds |-> bounds]), env)
    IN  IF ~Returned(inputs_mf) THEN RaiseOptimized(inputs_mf.raised, inputs_mf.msg, <<>>)
        ELSE IF ~Returned(inputs_kg) THEN inputs_kg
        ELSE ReturnOptimized(Merge(inputs_mf.value, inputs_kg.value), inputs_kg.optimize_acqf)

\* A variant of construct_inputs_qMFMES that checks the fidelity weights after
\* the optimization.
construct_inputs_qMFMES_optimizing_first(kw, env) ==
    LET model == kw.model
        training_data == kw.training_data
        objective == kw.objective
        bounds == kw.bounds
        target_fidelities == kw.target_fidelities
        kwargs == Rest(kw, {"model", "training_data", "objective", "bounds",
                            "target_fidelities"})
        inputs_mf == construct_inputs_mf_base(
            Merge(kwargs, [model |-> model, training_data |-> training_data,
                           objective |-> objective, target_fidelities |-> target_fidelities,
                           bounds |-> bounds]))
        inputs_qmes == construct_inputs_qMES(
            Merge(kwargs, [model |-> model, training_data |-> training_data,
                           objective |-> objective, bounds |-> bounds]), env)
        optimized == optimize_objective(
            Merge(kwargs, [model |-> model, objective |-> objective,
                           bounds |-> Transpose(bounds), q |-> 1,
                           target_fidelities |-> target_fidelities]), env)
    IN  IF ~Returned(inputs_qmes) THEN inputs_qmes
        ELSE IF ~Returned(optimized) THEN optimized
        ELSE IF ~Returned(inputs_mf)
        THEN RaiseOptimized(inputs_mf.raised, inputs_mf.msg, optimized.optimize_acqf)
        ELSE ReturnOptimized(
                 Merge(Merge(inputs_mf.value, inputs_qmes.value),
                       [current_value |-> TensorMax(optimized.value[2])]),
                 optimized.optimize_acqf)

construct_inputs_qMFMES(kw, env) ==
    LET model == kw.model
        training_data == kw.training_data
        objective == kw.objective
        bounds == kw.bounds
        target_fidelities == kw.target_fidelities
        kwargs == Rest(kw, {"model", "training_data", "objective", "bounds",
                            "target_fidelities"})
        inputs_mf == construct_inputs_mf_base(
            Merge(kwargs, [model |-> model, training_data |-> training_data,
                           objective |-> objective, target_fidelities |-> target_fidelities,
                           bounds |-> bounds]))
        inputs_qmes == construct_inputs_qMES(
            Merge(kwargs, [model |-> model, training_data |-> training_data,
                           objective |-> objective, bounds |-> bounds]), env)
        _bounds == bounds
        optimized == optimize_objective(
            Merge(kwargs, [model |-> model, objective |-> objective,
                           bounds |-> Transpose(_bounds), q |-> 1,
                           target_fidelities |-> target_fidelities]), env)
        current_value == optimized.value[2]
    IN  IF ~Returned(inputs_mf) THEN RaiseOptimized(inputs_mf.raised, inputs_mf.msg, <<>>)
        ELSE IF ~Returned(inputs_qmes) THEN inputs_qmes
        ELSE IF "q" \in DOMAIN kwargs
        THEN RaiseOptimized("TypeError", "got multiple values for keyword argument 'q'", <<>>)
        ELSE IF ~Returned(optimized) THEN optimized
        ELSE ReturnOptimized(
                 Merge(Merge(inputs_mf.value, inputs_qmes.value),
                       [current_value |-> TensorMax(current_value)]),
                 optimized.optimize_acqf)

(***************************************************************************)
(* These constructors, called on every data, bounds and fidelities         *)
(***************************************************************************)
LookaheadOps ==
    {"construct_inputs_qMES", "construct_inputs_qKG", "construct_inputs_qMFKG",
     "construct_inputs_qMFMES"}

\* bounds of d dimensions, as the caller gives them: a list of d pairs
LookaheadBounds(d) == [j \in 1..d |-> <<0, 10 * j>>]

\* target fidelities, and fidelity weights for the same or for other dimensions
LookaheadTargetFidelities == {[j \in {1} |-> 1], [j \in {0, 1} |-> 2]}
LookaheadFidelityWeights == {Some([j \in {1} |-> 2]), Some([j \in {0} |-> 2])}

\* The keyword arguments of a call of op.
LookaheadKwargs(op) ==
    LET required(objectives) ==
            {[model |-> "model", training_data |-> [is_block_design |-> b, X |-> "X_train"],
              objective |-> o, bounds |-> LookaheadBounds(d)] :
                b \in BOOLEAN, o \in objectives, d \in 1..MaxDim}
        single == WithOptional(
                      required({NoObjective, IdentityMCObjective} \cup ScalarizedObjectives(1)),
                      "X_pending", {Some("X_pending")})
        multi == WithOptional(
                     WithOptional(
                         WithRequired(required({NoObjective, IdentityMCObjective}),
                                      "target_fidelities", LookaheadTargetFidelities),
                         "fidelity_weights", LookaheadFidelityWeights),
                     "cost_intercept", {2})
    IN  CASE op = "construct_inputs_qMES" ->
                WithOptional(WithOptional(single, "candidate_size", {10}), "maximize", {FALSE})
          [] op = "construct_inputs_qKG" ->
                UNION {WithOptional(
                           WithOptional(
                               WithOptional({kw \in single : Len(kw.bounds) = d},
                                            "fixed_features", FixedFeatures(d)),
                               "num_fantasies", {8}),
                           "optimizer_options", {Some([num_restarts |-> 5])}) : d \in 1..MaxDim}
          [] op = "construct_inputs_qMFKG" ->
                WithOptional(WithOptional(multi, "num_fantasies", {8}),
                             "sampler", {Some("sampler")})
          [] op = "construct_inputs_qMFMES" ->
                WithOptional(WithOptional(multi, "candidate_size", {10}),
                             "qmc", {FALSE})

\* The environment of a call: what optimize_acqf returns, and what reading the
\* inputs of training data that is not block design gives.
LookaheadEnvironments(kw) ==
    {[optimize_acqf |-> r, X_read |-> x] :
        r \in OptimizeAcqfResults,
        x \in IF kw.training_data.is_block_design THEN {"returns"} ELSE {"raises", "returns"}}

InitLookahead ==
    /\ InitModule
    /\ \E op \in LookaheadOps :
         \E kw \in LookaheadKwargs(op) :
            \E env \in LookaheadEnvironments(kw) : call = CallIn(op, kw, env)

ConstructInputsQMES == Apply("construct_inputs_qMES", construct_inputs_qMES(call.args, call.env))

ConstructInputsQKG == Apply("construct_inputs_qKG", construct_inputs_qKG(call.args, call.env))

ConstructInputsQMFKG ==
    Apply("construct_inputs_qMFKG", construct_inputs_qMFKG(call.args, call.env))

ConstructInputsQMFMES ==
    Apply("construct_inputs_qMFMES", construct_inputs_qMFMES(call.args, call.env))

NextLookahead ==
    \/ ConstructInputsQMES
    \/ ConstructInputsQKG
    \/ ConstructInputsQMFKG
    \/ ConstructInputsQMFMES

SpecLookahead == InitLookahead /\ [][NextLookahead]_vars

\* C20: a call of construct_inputs_qKG, construct_inputs_qMFKG or
\* construct_inputs_qMFMES calls optimize_acqf at most once, and exactly once
\* when it returns: with q = 1 and, for the d pairs of bounds of the caller,
\* the 2 x d tensor of their lower and upper bounds (the surrogate over d
\* dimensions when features are fixed); current_value is the maximum of the
\* values that optimize_acqf returned; the bundle of qMFKG holds the fields of
\* the bundles of construct_inputs_mf_base and construct_inputs_qKG, and that
\* of qMFMES the fields of construct_inputs_mf_base and construct_inputs_qMES.
C20_NestedOptimization ==
    LET bundle == call.out.value
        d == Len(call.args.bounds)
        mf_fields == {"target_fidelities", "cost_aware_utility", "expand", "project"}
        mc_fields == {"model", "objective", "X_pending", "sampler"}
        inputs_mf == construct_inputs_mf_base(call.args)
    IN  (call.op \in LookaheadOps \ {"construct_inputs_qMES"} /\ call.out # Pending) =>
            /\ Len(call.out.optimize_acqf) <= 1
            /\ Returned(call.out) =>
                 /\ Len(call.out.optimize_acqf) = 1
                 /\ LET a == call.out.optimize_acqf[1]
                    IN  /\ a.q = 1
                        /\ IF a.acq_function.cls = "FixedFeatureAcquisitionFunction"
                           THEN a.acq_function.d = d
                           ELSE a.bounds = <<[j \in 1..d |-> call.args.bounds[j][1]],
                                             [j \in 1..d |-> call.args.bounds[j][2]]>>
                 /\ IsMaximumOf(bundle.current_value, Range(call.env.optimize_acqf[2]))
                 /\ call.op = "construct_inputs_qKG" =>
                      DOMAIN bundle = mc_fields \cup {"num_fantasies", "current_value"}
                 /\ call.op = "construct_inputs_qMFKG" =>
                      /\ mf_fields \cup mc_fields \cup {"num_fantasies", "current_value"}
                           \subseteq DOMAIN bundle
                      /\ \A f \in mf_fields : bundle[f] = inputs_mf.value[f]
                 /\ call.op = "construct_inputs_qMFMES" =>
                      /\ mf_fields \cup mc_fields \cup {"candidate_set", "maximize", "current_value"}
                           \subseteq DOMAIN bundle
                      /\ \A f \in mf_fields : bundle[f] = inputs_mf.value[f]

\* C20's case: construct_inputs_qMFKG has returned, with fidelity weights of the
\* caller, after one optimization that returned two values.
C20_Witness ==
    /\ Done("construct_inputs_qMFKG")
    /\ Returned(call.out)
    /\ "fidelity_weights" \in DOMAIN call.args
    /\ Len(call.args.bounds) = 3
    /\ Len(call.out.optimize_acqf) = 1
    /\ call.env.optimize_acqf[2] = <<2, 3>>
    /\ call.out.value.current_value = 3
    /\ call.out.value.cost_aware_utility.cost_model.fidelity_weights = [j \in {1} |-> 2]

(***************************************************************************)
(* The constructors with defaults, called with and without their arguments *)
(***************************************************************************)
DefaultsOps ==
    {"construct_inputs_best_f", "construct_inputs_ucb", "construct_inputs_noisy_ei",
     "construct_inputs_qNEI", "construct_inputs_qPI", "construct_inputs_qUCB"}

InitDefaults ==
    /\ InitModule
    /\ \/ \E op \in DefaultsOps, m \in OutcomeCounts :
            \E td \in ConstructorTrainingData(m) :
               \E kw \in ConstructorKwargs(op, m, td) : call = Call(op, kw)
       \/ \E kw \in LookaheadKwargs("construct_inputs_qKG") :
            \E env \in LookaheadEnvironments(kw) :
               call = CallIn("construct_inputs_qKG", kw, env)

NextDefaults ==
    \/ ConstructInputsBestF
    \/ ConstructInputsUcb
    \/ ConstructInputsNoisyEi
    \/ ConstructInputsQNEI
    \/ ConstructInputsQPI
    \/ ConstructInputsQUCB
    \/ ConstructInputsQKG

SpecDefaults == InitDefaults /\ [][NextDefaults]_vars

\* C14: in the bundle that a constructor returns, a field of the variant is the
\* caller's value, or when the caller gives none: beta 0.2 for
\* construct_inputs_ucb and construct_inputs_qUCB, maximize True for
\* construct_inputs_best_f and construct_inputs_ucb, tau 1e-3 for
\* construct_inputs_qPI, num_fantasies 20 for construct_inputs_noisy_ei and 64
\* for construct_inputs_qKG, prune_baseline False for construct_inputs_qNEI;
\* and the fields of the base bundle (model, objective, X_pending, sampler)
\* hold the caller's values, None when not given.
C14_VariantDefaults ==
    LET kw == call.args
        bundle == call.out.value
        Field(name, default) ==
            bundle[name] = (IF name \in DOMAIN kw THEN kw[name] ELSE default)
        AnalyticBase == /\ bundle.model = kw.model
                        /\ Field("objective", NoObjective)
        McBase == /\ AnalyticBase
                  /\ Field("X_pending", None)
                  /\ Field("sampler", None)
    IN  (call.out # Pending /\ Returned(call.out)) =>
            /\ call.op = "construct_inputs_ucb" =>
                 Field("beta", 200) /\ Field("maximize", TRUE) /\ AnalyticBase
            /\ call.op = "construct_inputs_qUCB" => Field("beta", 200) /\ McBase
            /\ call.op = "construct_inputs_best_f" => Field("maximize", TRUE) /\ AnalyticBase
            /\ call.op = "construct_inputs_qPI" => Field("tau", 1) /\ McBase
            /\ call.op = "construct_inputs_noisy_ei" =>
                 Field("num_fantasies", 20) /\ bundle.model = kw.model
            /\ call.op = "construct_inputs_qKG" => Field("num_fantasies", 64) /\ McBase
            /\ call.op = "construct_inputs_qNEI" => Field("prune_baseline", FALSE) /\ McBase

\* C14's case: construct_inputs_ucb has returned for a call with an objective
\* and maximize = False and without beta.
C14_Witness ==
    /\ Done("construct_inputs_ucb")
    /\ Returned(call.out)
    /\ "beta" \notin DOMAIN call.args
    /\ Arg(call.args, "maximize", TRUE) = FALSE
    /\ Arg(call.args, "objective", NoObjective) # NoObjective
    /\ call.out.value.beta = DefaultBeta
    /\ ~call.out.value.maximize
    /\ call.out.value.objective = call.args.objective

(***************************************************************************)
(* The module with calls of the registered input constructors              *)
(***************************************************************************)
ModuleMethods == {ModuleBody[i].method : i \in DOMAIN ModuleBody}

\* input_constructor(**kw) for the function of the module of that name
input_constructor(f, kw, env) ==
    CASE f = "construct_inputs_analytic_base" -> construct_inputs_analytic_base(kw)
      [] f = "construct_inputs_best_f" -> construct_inputs_best_f(kw)
      [] f = "construct_inputs_ucb" -> construct_inputs_ucb(kw)
      [] f = "construct_inputs_constrained_ei" ->
            construct_inputs_constrained_ei(kw.model, kw.training_data, kw.objective_index,
                                            kw.constraints, Arg(kw, "maximize", TRUE))
      [] f = "construct_inputs_noisy_ei" -> construct_inputs_noisy_ei(kw)
      [] f = "construct_inputs_mc_base" -> construct_inputs_mc_base(kw)
      [] f = "construct_inputs_qEI" -> construct_inputs_qEI(kw)
      [] f = "construct_inputs_qNEI" -> construct_inputs_qNEI(kw)
      [] f = "construct_inputs_qPI" -> construct_inputs_qPI(kw)
      [] f = "construct_inputs_qUCB" -> construct_inputs_qUCB(kw)
      [] f = "construct_inputs_EHVI" -> construct_inputs_EHVI(kw, env)
      [] f = "construct_inputs_qEHVI" -> construct_inputs_qEHVI(kw, env)
      [] f = "construct_inputs_qNEHVI" -> construct_inputs_qNEHVI(kw, env)
      [] f = "construct_inputs_qMES" -> construct_inputs_qMES(kw, env)
      [] f = "construct_inputs_qKG" -> construct_inputs_qKG(kw, env)
      [] f = "construct_inputs_qMFKG" -> construct_inputs_qMFKG(kw, env)
      [] f = "construct_inputs_qMFMES" -> construct_inputs_qMFMES(kw, env)

\* One set of keyword arguments for all constructors, each of which takes what
\* its signature names and ignores the rest, for training data that is block
\* design or not.
CommonKwargs(is_block_design) ==
    [model |-> [name |-> "model", posterior_mean |-> << <<1, 2>> >>],
     training_data |-> [is_block_design |-> is_block_design, X |-> "X_train",
                        Y |-> << <<1>>, <<3>> >>],
     objective |-> NoObjective,
     objective_index |-> 0,
     constraints |-> "constraints",
     objective_thresholds |-> <<0, 1>>,
     bounds |-> LookaheadBounds(2),
     target_fidelities |-> [j \in {1} |-> 1]]

CommonEnvironment ==
    [default_alpha |-> [n \in OutcomeCounts |-> 0], seed |-> 1, X_read |-> "raises",
     optimize_acqf |-> <<"candidates", <<1>>>>]

\* A caller looks the input constructor of a class up and calls it.
CallInputConstructor(acqf_cls, is_block_design) ==
    /\ Loaded
    /\ acqf_cls \in DOMAIN registry
    /\ registry[acqf_cls] \in ModuleMethods
    /\ call' = [op |-> "call_input_constructor",
                args |-> <<acqf_cls, registry[acqf_cls], is_block_design>>,
                out |-> input_constructor(registry[acqf_cls],
                                          CommonKwargs(is_block_design), CommonEnvironment)]
    /\ UNCHANGED <<registry, registrations, decorators, pc>>

\* The module is loaded, and callers then create decorators, look classes up
\* and call the constructors they find.
NextModule ==
    \/ LoadStep
    \/ \E acqf_cls \in ClassTuples : AcqfInputConstructor(acqf_cls)
    \/ \E acqf_cls \in AcqfClasses : GetAcqfInputConstructor(acqf_cls)
    \/ \E acqf_cls \in AcqfClasses, b \in BOOLEAN : CallInputConstructor(acqf_cls, b)

SpecModule == Init /\ [][NextModule]_vars

\* C13: the load of the module raises no error; when it is done, and as long
\* as no caller registers anything, the registry holds exactly the 18 classes of
\* the module, each registered once and with the function it decorates
\* (construct_inputs_best_f for both ExpectedImprovement and
\* ProbabilityOfImprovement); and no call of get_acqf_input_constructor or of
\* a registered input constructor changes the registry.
C13_RegistryAfterLoad ==
    /\ [](pc # -1)
    /\ []((Loaded /\ Len(registrations) = 18) =>
            /\ Cardinality(DOMAIN registry) = 18
            /\ \A c \in DOMAIN registry :
                 /\ Cardinality({i \in DOMAIN registrations : registrations[i][1] = c}) = 1
                 /\ \E i \in DOMAIN ModuleBody :
                      c \in Range(ModuleBody[i].classes) /\ registry[c] = ModuleBody[i].method
            /\ registry["ExpectedImprovement"] = "construct_inputs_best_f"
            /\ registry["ProbabilityOfImprovement"] = "construct_inputs_best_f")
    /\ [](Loaded => Len(registrations) >= 18)
    /\ [][call'.op \in {"get_acqf_input_constructor", "call_input_constructor",
                        "construct_inputs_constrained_ei"}
            => registry' = registry /\ registrations' = registrations]_vars

\* C13's case: after the load the constructor registered for
\* ProbabilityOfImprovement has been called and has returned a bundle.
C13_Witness ==
    /\ Loaded
    /\ Len(registrations) = 18
    /\ call.op = "call_input_constructor"
    /\ call.args = <<"ProbabilityOfImprovement", "construct_inputs_best_f", TRUE>>
    /\ Returned(call.out)
    /\ call.out.value.best_f = Some(3)

\* C22: construct_inputs_best_f and construct_inputs_qEI called with a best_f
\* of the caller derive the best value from the training data all the same:
\* they return a bundle with the caller's best_f when the derivation
\* (get_best_f_analytic, get_best_f_mc) succeeds and fail with its exception
\* and message when it fails; construct_inputs_qPI called with a best_f that
\* is not None returns the bundle with it whatever the training data, and
\* follows the derivation when best_f is None or absent.
C22_BestFAlwaysDerived ==
    LET kw == call.args
        objective == Arg(kw, "objective", NoObjective)
        derived == IF call.op = "construct_inputs_best_f"
                   THEN get_best_f_analytic(kw.training_data, objective)
                   ELSE get_best_f_mc(kw.training_data, objective)
        Follows(best_f) ==
            IF Returned(derived)
            THEN Returned(call.out) /\ call.out.value.best_f = best_f
            ELSE call.out = derived
    IN  /\ ( /\ call.op \in {"construct_inputs_best_f", "construct_inputs_qEI"}
             /\ call.out # Pending
             /\ "best_f" \in DOMAIN kw )
            => Follows(kw.best_f)
        /\ ( /\ Done("construct_inputs_qPI")
             /\ Arg(kw, "best_f", None) # None )
            => Returned(call.out) /\ call.out.value.best_f = kw.best_f
        /\ ( /\ Done("construct_inputs_qPI")
             /\ Arg(kw, "best_f", None) = None )
            => Follows(Some(derived.value))

\* C22's case: construct_inputs_best_f has failed for a caller who gave best_f,
\* on block-design data of two outcomes without an objective.
C22_Witness ==
    /\ Done("construct_inputs_best_f")
    /\ Arg(call.args, "best_f", None) = Some(7)
    /\ call.args.training_data.is_block_design
    /\ NumOutcomes(call.args.training_data.Y) = 2
    /\ "objective" \notin DOMAIN call.args
    /\ call.out = Raise("NotImplementedError", MultiOutputAnalyticMsg)

(***************************************************************************)
(* The constructors that can fail on a precondition, with the calls of the *)
(* model and of the optimizer that they have made                          *)
(***************************************************************************)
PreconditionLookaheadOps == {"construct_inputs_qMFKG", "construct_inputs_qMFMES"}
PreconditionBestFOps == {"construct_inputs_qEI", "construct_inputs_qPI"}

InitPrecondition ==
    /\ InitModule
    /\ \/ \E op \in PreconditionLookaheadOps :
            \E kw \in LookaheadKwargs(op) :
               \E env \in LookaheadEnvironments(kw) : call = CallIn(op, kw, env)
       \/ \E op \in PreconditionBestFOps, m \in OutcomeCounts :
            \E td \in ConstructorTrainingData(m) :
               \E kw \in ConstructorKwargs(op, m, td) : call = Call(op, kw)
       \/ \E m \in OutcomeCounts :
            \E kw \in HypervolumeKwargs("construct_inputs_EHVI", m) :
               \E env \in Environments("construct_inputs_EHVI", kw) :
                  call = CallIn("construct_inputs_EHVI", kw, env)

NextPrecondition ==
    \/ ConstructInputsQMFKG
    \/ ConstructInputsQMFMES
    \/ ConstructInputsQEI
    \/ ConstructInputsQPI
    \/ ConstructInputsEHVI

SpecPrecondition == InitPrecondition /\ [][NextPrecondition]_vars

\* The calls of model.posterior and of optimize_acqf that an outcome records;
\* a constructor without such a call on any of its paths records none.
ExternalCalls(out) ==
    (IF "posterior_calls" \in DOMAIN out THEN out.posterior_calls ELSE 0)
    + (IF "optimize_acqf" \in DOMAIN out THEN Len(out.optimize_acqf) ELSE 0)

\* The call has failed with the exception e, without a bundle and before any
\* call of the model's posterior or of the optimizer.
FailedEarly(e) ==
    /\ Raised(call.out, e)
    /\ "value" \notin DOMAIN call.out
    /\ ExternalCalls(call.out) = 0

\* C21: construct_inputs_qMFKG and construct_inputs_qMFMES called with fidelity
\* weights whose keys differ from those of target_fidelities raise RuntimeError
\* with no call of optimize_acqf made and no bundle returned; when the best-f
\* helper fails, construct_inputs_qEI (always) and construct_inputs_qPI
\* (without a best_f of the caller) fail with its exception, and
\* construct_inputs_EHVI called with outcome constraints raises
\* NotImplementedError, each without a call of the model or of the optimizer.
C21_FailBeforeExternalCalls ==
    LET kw == call.args
        derived == get_best_f_mc(kw.training_data, Arg(kw, "objective", NoObjective))
    IN  /\ ( /\ call.op \in PreconditionLookaheadOps
             /\ call.out # Pending
             /\ Arg(kw, "fidelity_weights", None) # None
             /\ DOMAIN kw.fidelity_weights[1] # DOMAIN kw.target_fidelities )
            => FailedEarly("RuntimeError")
        /\ ( /\ Done("construct_inputs_qEI")
             /\ ~Returned(derived) )
            => FailedEarly(derived.raised)
        /\ ( /\ Done("construct_inputs_qPI")
             /\ Arg(kw, "best_f", None) = None
             /\ ~Returned(derived) )
            => FailedEarly(derived.raised)
        /\ ( /\ Done("construct_inputs_EHVI")
             /\ Arg(kw, "outcome_constraints", None) # None )
            => FailedEarly("NotImplementedError")

\* C21's case: construct_inputs_qMFMES has failed on fidelity weights for
\* another dimension than the target fidelity, for block-design data on which
\* the optimization would have run.
C21_Witness ==
    /\ Done("construct_inputs_qMFMES")
    /\ call.args.training_data.is_block_design
    /\ call.args.target_fidelities = [j \in {1} |-> 1]
    /\ Arg(call.args, "fidelity_weights", None) = Some([j \in {0} |-> 2])
    /\ Returned(construct_inputs_qMFMES(Rest(call.args, {"fidelity_weights"}), call.env))
    /\ Raised(call.out, "RuntimeError")
    /\ call.out.optimize_acqf = <<>>
====
